---- MODULE Spec2Model ----
(***************************************************************************)
(* Model of the StreamRecorder component of cloudflare-stream-app          *)
(* (src/src/components/streaming/StreamRecorder.tsx): the Readiness Poller *)
(* (pollVideoReadinessAndGenerateCaptions) and the Live Transport          *)
(* (startStreaming, pauseResumeStreaming, stopStreaming, unmount effect).  *)
(*                                                                         *)
(* The scheduling model is the browser's: one thread, and every await,     *)
(* timer and network response is a suspension point at which any other     *)
(* enabled handler or continuation may run.  One action of the model is    *)
(* the code between two suspension points.  React state variables hold the *)
(* value last passed to their setter; a click handler is enabled by the    *)
(* condition under which its button is rendered and not disabled.          *)
(***************************************************************************)
EXTENDS Integers, Sequences, FiniteSets, TLC

\* ------------------------------------------------------------------------
\* Bounds of the model (not program constants)
\* ------------------------------------------------------------------------
MaxStarts == 3
MaxStops == 2
MaxPauses == 2
MaxRecordings == 1
MaxChunks == 1
DeviceRecordings == 1
DeviceStarts == 1
MaxUrlLen == 3
MaxInputs == 2
OverlapRecordings == 2

\* ------------------------------------------------------------------------
\* Program constants
\* ------------------------------------------------------------------------
maxAttempts == 60

VARIABLES
  \* --- component ---
  mounted,            \* FALSE once the component has been unmounted
  mode,               \* useState 'buffered' | 'live'
  error,              \* useState error: "none" or a tag naming the message
  \* --- live transport (React state) ---
  isStreaming, isConnecting, connectionStatus, isPaused, isPausingResuming,
  liveInputId,        \* 0 = null, else the uid of the live input
  \* --- refs ---
  streamRef,          \* 0 = null, else index into streams
  whipClientRef,      \* 0 = null, else index into clients
  \* --- environment objects created by the component ---
  streams,            \* sequence: state of the tracks of each acquired MediaStream
  clients,            \* sequence: [ingest, destroyed] of each WHIPClient created
  liveInputs,         \* number of live inputs provisioned with a uid
  \* --- async invocations in flight ---
  startTasks,         \* sequence of startStreaming invocations
  stopGrace,          \* stopStreaming invocations waiting in the 1000 ms grace timer
  stopDestroy,        \* stopStreaming invocations awaiting whipClient.destroy()
  stopCalls,          \* number of stopStreaming invocations so far
  pauseTasks,         \* sequence of pauseResumeStreaming invocations in flight
  pauseCalls,         \* number of pauseResumeStreaming invocations so far
  lastPause,          \* outcome of the last finished pause/resume request
  lastDestroy,        \* how the last destroy() awaited by stopStreaming settled,
                      \* since the last click on Stop: "none" | "ok" | "threw"
  pauseSentFor,       \* history: the live inputs a pause request was sent for
  \* --- readiness poller (closure of one call) ---
  \* --- buffered transport (React state) ---
  isRecording, isUploading,
  progress,           \* useState progress, a percentage
  videoId,            \* 0 = null, else the uid of the last upload session
  \* --- refs and objects of the buffered transport ---
  recorderRef,        \* 0 = null, else index into recorders
  recorders,          \* sequence: [state, stream, events] of each MediaRecorder
  chunksRef,          \* chunksRef.current: the recorder that produced each chunk
  chunkCount,         \* number of timeslice dataavailable events so far
  recClicks,          \* number of startRecording invocations so far
  recPending,         \* startRecording invocations awaiting getUserMedia
  uploadTasks,        \* sequence of uploadRecording invocations in flight
  lastUpload,         \* the last uploadRecording invocation that finished
  sessions,           \* per upload session created: number of payload transfers
  pollersStarted,     \* uids passed to pollVideoReadinessAndGenerateCaptions
  completed,          \* uids passed to onRecordingComplete
  \* --- playback resolver (server side) ---
  resRoute, resIn, resSub, resTok, resOut, resOut2, resPc,
  resTokenRequests,   \* number of generateSignedToken calls of the request
  \* --- platform gateway (lib/cloudflare.ts) ---
  gwOp,               \* the operation called
  gwConfigured,       \* CLOUDFLARE_ACCOUNT_ID and CLOUDFLARE_API_TOKEN are set
  gwResponse,         \* what fetch gives when the operation calls it
  gwResult,           \* what the operation gave its caller
  gwPc,               \* "idle" | "call" | "returned"
  \* --- library aggregator (GET /api/videos/list) ---
  aggSub,             \* CUSTOMER_SUBDOMAIN is set
  aggTok,             \* per asset of the answer: generateSignedToken gave a token
  aggVideos,          \* what listVideos gives
  aggInputs,          \* what listLiveInputs gives
  aggIdx,             \* position of the for loop over liveInputs
  aggAll,             \* allRecordings
  aggFetched,         \* history: per live input visited, what was fetched
  aggOut,             \* data of the response
  aggPc,              \* "idle" | "request" | "loop" | "done" | "failed"
  \* --- the fetches of GET /api/videos/list, one by one ---
  netInputs,          \* per live input listed: it has a uid
  netVideosFetch,     \* listVideos(): "unissued" | "pending" | "done" | "failed"
  netInputsFetch,     \* listLiveInputs(): the same
  netRecordingsFetch, \* getLiveInputRecordings per live input: the same
  netIdx,             \* position of the for loop over liveInputs
  netPc,              \* "idle" | "start" | "lists" | "loop" | "recordings" |
                      \* "merge" | "failed"
  pollPc,             \* "unstarted" | "idle" | "awaitStatus" | "awaitCaptions"
  attempts,           \* let attempts
  timeoutId,          \* TRUE iff a timer is pending (timeoutId !== null and not fired)
  statusFetches,      \* number of GET /api/stream/status issued
  captionRequests,    \* number of POST captions/generate issued
  observed,           \* history: what a status response has reported:
                      \* "none" | "ready" | "error"
  lastStatus,         \* the last status response handled
  lastCaption,        \* outcome of the caption request: "none" | "ok" | "failed"
  pendingAtUnmount    \* history: a poll was scheduled when the component was unmounted

compVars == <<mounted, mode, error>>
liveVars == <<isStreaming, isConnecting, connectionStatus, isPaused,
              isPausingResuming, liveInputId, streamRef, whipClientRef,
              streams, clients, liveInputs, startTasks, stopGrace, stopDestroy,
              stopCalls, pauseTasks, pauseCalls, lastPause, lastDestroy, pauseSentFor>>
pollVars == <<pollPc, attempts, timeoutId, statusFetches, captionRequests,
              observed, lastStatus, lastCaption, pendingAtUnmount>>
recVars == <<isRecording, isUploading, progress, videoId, recorderRef,
             recorders, chunksRef, chunkCount, recClicks, recPending,
             uploadTasks, lastUpload, sessions, pollersStarted, completed>>
resVars == <<resRoute, resIn, resSub, resTok, resOut, resOut2, resPc,
             resTokenRequests>>
gwVars == <<gwOp, gwConfigured, gwResponse, gwResult, gwPc>>
aggVars == <<aggSub, aggTok, aggVideos, aggInputs, aggIdx, aggAll, aggFetched,
             aggOut, aggPc>>
netVars == <<netInputs, netVideosFetch, netInputsFetch, netRecordingsFetch,
             netIdx, netPc>>
apiVars == <<resVars, gwVars, aggVars, netVars>>
clientVars == <<compVars, liveVars, pollVars, recVars>>
vars == <<compVars, liveVars, pollVars, recVars, apiVars>>

\* ------------------------------------------------------------------------
\* Readiness Poller
\* ------------------------------------------------------------------------

\* video.status.state values (src/src/types/stream.ts)
VideoStates == {"pendingupload", "downloading", "queued", "ready", "error"}

\* A response to GET /api/stream/status as checkAndGenerate sees it:
\*   thrown  - fetch rejected (network exception)
\*   ok      - statusResponse.ok
\*   json    - statusResponse.json() resolves
\*   success, hasData, readyToStream, state - fields of the parsed body
\* Fields the code cannot read (the body of a rejected fetch, the video of a
\* body without data) are kept at a fixed value.
StatusResponses ==
  { r \in [thrown : BOOLEAN, ok : BOOLEAN, json : BOOLEAN, success : BOOLEAN,
            hasData : BOOLEAN, readyToStream : BOOLEAN, state : VideoStates] :
      /\ r.thrown => ~r.ok
      /\ ~r.ok => ~r.json
      /\ ~r.json => (~r.success /\ ~r.hasData)
      /\ ~r.hasData => (~r.readyToStream /\ r.state = "queued") }

\* the try block reaches line 35 with a parsed body
StatusParsed(r) == ~r.thrown /\ r.ok /\ r.json

\* line 35: statusResult.success && statusResult.data
StatusHasVideo(r) == StatusParsed(r) /\ r.success /\ r.hasData

\* line 38: video.readyToStream
SeesReady(r) == StatusHasVideo(r) /\ r.readyToStream

\* line 51: video.status?.state === "error" (reached only if not ready)
SeesErrorMut(r) == StatusHasVideo(r) /\ r.state = "failed"
SeesError(r) == StatusHasVideo(r) /\ ~r.readyToStream /\ r.state = "error"

\* what a status response reports about the asset, read off the response
\* itself (independently of the branches of checkAndGenerate)
ReportsReady(r) ==
  ~r.thrown /\ r.ok /\ r.json /\ r.success /\ r.hasData /\ r.readyToStream
ReportsError(r) ==
  /\ ~r.thrown /\ r.ok /\ r.json /\ r.success /\ r.hasData
  /\ ~r.readyToStream /\ r.state = "error"
FetchFailed(r) == r.thrown \/ ~r.ok

\* lines 56 and 60: attempts < maxAttempts
BudgetLeftMut(a) == a <= maxAttempts
BudgetLeft(a) == a < maxAttempts

\* lines 59-63: the catch block reschedules exactly like lines 56-58
RescheduleAfterFailureMut(a) == FALSE
RescheduleAfterFailure(a) == BudgetLeft(a)

\* lines 39-47: the inner try/catch around the caption request
CaptionFailureCaughtMut == FALSE
CaptionFailureCaught == TRUE

\* lines 13-17, 66: what a call of pollVideoReadinessAndGenerateCaptions
\* does: a closure with attempts = 0 and the first timer of 2000 ms.  Every
\* call makes a closure of its own; the poller variables follow the closure
\* of the first call, later calls are recorded in pollersStarted only.
PollerStarted ==
  IF pollPc = "unstarted"
    THEN /\ pollPc' = "idle"
         /\ attempts' = 0
         /\ timeoutId' = TRUE
         /\ UNCHANGED <<statusFetches, captionRequests, observed, lastStatus,
                        lastCaption, pendingAtUnmount>>
    ELSE UNCHANGED pollVars

\* lines 13-17, 66: the call itself, apart from the upload that makes it
pollVideoReadinessAndGenerateCaptions ==
  /\ pollPc = "unstarted"
  /\ PollerStarted
  /\ UNCHANGED <<compVars, liveVars, recVars, apiVars>>

\* lines 19-27: the timer fires: clear timeoutId, count the attempt, issue the fetch
checkAndGenerate_Fire ==
  /\ timeoutId
  /\ pollPc = "idle"
  /\ timeoutId' = FALSE
  /\ attempts' = attempts + 1
  /\ statusFetches' = statusFetches + 1
  /\ pollPc' = "awaitStatus"
  /\ UNCHANGED <<captionRequests, observed, lastStatus, lastCaption, pendingAtUnmount>>
  /\ UNCHANGED <<compVars, liveVars, recVars, apiVars>>

\* lines 27-63: the status response (or rejection) arrives
checkAndGenerate_Status ==
  /\ pollPc = "awaitStatus"
  /\ \E r \in StatusResponses :
       /\ lastStatus' = r
       /\ observed' = IF ReportsReady(r) THEN "ready"
                      ELSE IF ReportsError(r) THEN "error"
                      ELSE observed
       /\ IF ~StatusParsed(r)
            THEN \* catch, lines 59-63
                 /\ timeoutId' = RescheduleAfterFailure(attempts)
                 /\ pollPc' = "idle"
                 /\ UNCHANGED captionRequests
            ELSE IF SeesReady(r)
            THEN \* lines 38-44: caption request issued
                 /\ captionRequests' = captionRequests + 1
                 /\ pollPc' = "awaitCaptions"
                 /\ UNCHANGED timeoutId
            ELSE IF SeesError(r)
            THEN \* lines 51-53
                 /\ pollPc' = "idle"
                 /\ UNCHANGED <<timeoutId, captionRequests>>
            ELSE \* lines 56-58
                 /\ timeoutId' = BudgetLeft(attempts)
                 /\ pollPc' = "idle"
                 /\ UNCHANGED captionRequests
  /\ UNCHANGED <<attempts, statusFetches, lastCaption, pendingAtUnmount>>
  /\ UNCHANGED <<compVars, liveVars, recVars, apiVars>>

\* lines 39-48: the caption request settles; a rejection is caught by the
\* inner catch and the function returns
checkAndGenerate_Captions ==
  /\ pollPc = "awaitCaptions"
  /\ \E outcome \in {"ok", "failed"} :
       /\ lastCaption' = outcome
       /\ timeoutId' = IF outcome = "failed" /\ ~CaptionFailureCaught
                         THEN BudgetLeft(attempts)   \* would reach lines 59-63
                         ELSE FALSE
  /\ pollPc' = "idle"
  /\ UNCHANGED <<attempts, statusFetches, captionRequests, observed, lastStatus,
                 pendingAtUnmount>>
  /\ UNCHANGED <<compVars, liveVars, recVars, apiVars>>

\* ------------------------------------------------------------------------
\* Live Transport
\* ------------------------------------------------------------------------

ConnectionStatuses == {"disconnected", "connecting", "connected", "error"}

\* streamRef.current.getTracks().forEach(track => track.stop())
StopTracks(ss, ref) == IF ref = 0 THEN ss ELSE [ss EXCEPT ![ref] = "stopped"]

\* whipClient.destroy() has been called on the client
Destroy(cs, ref) == IF ref = 0 THEN cs ELSE [cs EXCEPT ![ref].destroyed = TRUE]

\* lines 393-400: the effect with dependency [isStreaming].  When a render
\* changes isStreaming, React runs the cleanup of the previous effect, whose
\* closure holds the old value: if (isStreaming && whipClientRef.current)
\* whipClientRef.current.destroy().  Nothing is rendered after unmount.
EffectCleanup(old, new, cs, ref) ==
  IF mounted /\ old /\ ~new /\ ref # 0 THEN Destroy(cs, ref) ELSE cs

\* lines 624-635: the Start Streaming button is rendered when !isStreaming
\* (in live mode) and disabled while isConnecting
StartButtonEnabled == mounted /\ mode = "live" /\ ~isStreaming /\ ~isConnecting

\* lines 636-644: the Pause/Resume button is rendered when isStreaming and
\* disabled while isPausingResuming
PauseButtonEnabledMut == mounted /\ mode = "live" /\ isStreaming
PauseButtonEnabled == mounted /\ mode = "live" /\ isStreaming /\ ~isPausingResuming

\* lines 655-662: the Stop Streaming button is rendered when isStreaming
StopButtonEnabled == mounted /\ mode = "live" /\ isStreaming

StartInFlight(t) == t.pc \in {"getUserMedia", "create", "ingest"}

SetTask(i, t) == [startTasks EXCEPT ![i] = t]

\* lines 232-241: click on Start Streaming, up to await getUserMedia
startStreaming ==
  /\ StartButtonEnabled
  /\ Len(startTasks) < MaxStarts
  /\ error' = "none"
  /\ isConnecting' = TRUE
  /\ connectionStatus' = "connecting"
  /\ startTasks' = Append(startTasks,
                     [pc |-> "getUserMedia", stream |-> 0, client |-> 0, failedAt |-> "none"])
  /\ UNCHANGED <<mounted, mode, isStreaming, isPaused, isPausingResuming,
                 liveInputId, streamRef, whipClientRef, streams, clients,
                 liveInputs, stopGrace, stopDestroy, stopCalls, pauseTasks,
                 pauseCalls, lastPause, lastDestroy, pauseSentFor>>
  /\ UNCHANGED <<pollVars, recVars, apiVars>>

\* lines 296-315: the catch block of startStreaming, run by invocation i
\* after the step named by step has thrown; cs is the clients as they are now.
\* It releases whatever whipClientRef and streamRef reference at that moment.
startStreaming_Catch(i, step, cs) ==
  /\ error' = "start"
  /\ isConnecting' = FALSE
  /\ connectionStatus' = "error"
  /\ clients' = Destroy(cs, whipClientRef)
  /\ whipClientRef' = 0
  /\ streams' = StopTracks(streams, streamRef)
  /\ streamRef' = 0
  /\ startTasks' = SetTask(i, [startTasks[i] EXCEPT !.pc = "failed", !.failedAt = step])
  /\ UNCHANGED <<mounted, mode, isStreaming, isPaused, isPausingResuming,
                 liveInputId, liveInputs, stopGrace, stopDestroy, stopCalls,
                 pauseTasks, pauseCalls, lastPause, lastDestroy, pauseSentFor>>

\* lines 238-268: getUserMedia settles; on success streamRef is set and the
\* live input is requested
startStreaming_Media(i) ==
  /\ startTasks[i].pc = "getUserMedia"
  /\ \E granted \in BOOLEAN :
       IF granted
         THEN /\ streams' = Append(streams, "running")
              /\ streamRef' = Len(streams) + 1
              /\ startTasks' = SetTask(i, [startTasks[i] EXCEPT
                                  !.pc = "create", !.stream = Len(streams) + 1])
              /\ UNCHANGED <<compVars, isStreaming, isConnecting, connectionStatus,
                             isPaused, isPausingResuming, liveInputId,
                             whipClientRef, clients, liveInputs, stopGrace,
                             stopDestroy, stopCalls, pauseTasks, pauseCalls,
                             lastPause, lastDestroy, pauseSentFor>>
         ELSE startStreaming_Catch(i, "device", clients)
  /\ UNCHANGED <<pollVars, recVars, apiVars>>

\* lines 261-291: the response of POST /api/stream/create arrives:
\*   "throw"    - fetch or response.json() rejects
\*   "rejected" - result.success is false
\*   "noUrl"    - success, but liveInput.webRTC?.url is missing
\*   "ok"       - success with an ingest endpoint
CreateOutcomes == {"throw", "rejected", "noUrl", "ok"}

startStreaming_Created(i) ==
  /\ startTasks[i].pc = "create"
  /\ \E outcome \in CreateOutcomes :
       IF outcome = "ok"
         THEN /\ liveInputs' = liveInputs + 1
              /\ liveInputId' = liveInputs + 1
              /\ clients' = Append(clients, [ingest |-> "pending", destroyed |-> FALSE])
              /\ whipClientRef' = Len(clients) + 1
              /\ startTasks' = SetTask(i, [startTasks[i] EXCEPT
                                  !.pc = "ingest", !.client = Len(clients) + 1])
              /\ UNCHANGED <<compVars, isStreaming, isConnecting, connectionStatus,
                             isPaused, isPausingResuming, streamRef, streams,
                             stopGrace, stopDestroy, stopCalls, pauseTasks,
                             pauseCalls, lastPause, lastDestroy, pauseSentFor>>
         ELSE startStreaming_Catch(i, IF outcome = "noUrl" THEN "endpoint" ELSE "provision",
                                   clients)
  /\ UNCHANGED <<pollVars, recVars, apiVars>>

\* lines 291-295: whipClient.ingest(stream) settles
startStreaming_Ingested(i) ==
  /\ startTasks[i].pc = "ingest"
  /\ \E ok \in BOOLEAN :
       IF ok
         THEN /\ isStreaming' = TRUE
              /\ isConnecting' = FALSE
              /\ connectionStatus' = "connected"
              /\ clients' = EffectCleanup(isStreaming, TRUE,
                              [clients EXCEPT ![startTasks[i].client].ingest = "ok"],
                              whipClientRef)
              /\ startTasks' = SetTask(i, [startTasks[i] EXCEPT !.pc = "connected"])
              /\ UNCHANGED <<compVars, isPaused, isPausingResuming, liveInputId,
                             streamRef, whipClientRef, streams, liveInputs,
                             stopGrace, stopDestroy, stopCalls, pauseTasks,
                             pauseCalls, lastPause, lastDestroy, pauseSentFor>>
         ELSE startStreaming_Catch(i, "ingest",
                [clients EXCEPT ![startTasks[i].client].ingest = "failed"])
  /\ UNCHANGED <<pollVars, recVars, apiVars>>

\* ---- pauseResumeStreaming ----

\* the result of POST /api/live-inputs/{id}/pause or /resume as the client
\* sees it:
\*   "throw"      - fetch or response.json() rejects
\*   "failResult" - the route answers { success: false, error } (status 500)
\*   "ok"         - the route answers { success: true }
PauseOutcomes == {"throw", "failResult", "ok"}

\* lines 318-346: click on Pause/Resume: pauseResumeStreaming(!isPaused), up
\* to the await of the request
pauseResumeStreaming ==
  /\ PauseButtonEnabled
  /\ pauseCalls < MaxPauses
  /\ pauseCalls' = pauseCalls + 1
  /\ IF liveInputId = 0
       THEN \* lines 319-322
            /\ error' = "noLiveInput"
            /\ UNCHANGED <<mounted, mode, isStreaming, isConnecting, connectionStatus,
                           isPaused, isPausingResuming, liveInputId, streamRef,
                           whipClientRef, streams, clients, liveInputs, startTasks,
                           stopGrace, stopDestroy, stopCalls, pauseTasks, lastPause, lastDestroy, pauseSentFor>>
       ELSE IF ~isPaused
       THEN \* pause = true, lines 325-340
            /\ isPausingResuming' = TRUE
            /\ error' = "none"
            /\ streams' = StopTracks(streams, streamRef)
            /\ streamRef' = 0
            /\ isStreaming' = FALSE
            /\ connectionStatus' = "disconnected"
            /\ isPaused' = TRUE
            /\ clients' = EffectCleanup(isStreaming, FALSE, clients, whipClientRef)
            /\ pauseTasks' = Append(pauseTasks,
                 [n |-> pauseCalls + 1, pause |-> TRUE, id |-> liveInputId,
                  released |-> streamRef])
            /\ pauseSentFor' = pauseSentFor \cup {liveInputId}
            /\ UNCHANGED <<mounted, mode, isConnecting, liveInputId, whipClientRef,
                           liveInputs, startTasks, stopGrace, stopDestroy,
                           stopCalls, lastPause, lastDestroy>>
       ELSE \* pause = false, lines 325-326, 343-345
            /\ isPausingResuming' = TRUE
            /\ error' = "none"
            /\ pauseTasks' = Append(pauseTasks,
                 [n |-> pauseCalls + 1, pause |-> FALSE, id |-> liveInputId,
                  released |-> 0])
            /\ UNCHANGED <<mounted, mode, isStreaming, isConnecting, connectionStatus,
                           isPaused, liveInputId, streamRef, whipClientRef,
                           streams, clients, liveInputs, startTasks, stopGrace,
                           stopDestroy, stopCalls, lastPause, lastDestroy, pauseSentFor>>
  /\ UNCHANGED <<pollVars, recVars, apiVars>>

RemoveAt(q, i) == SubSeq(q, 1, i - 1) \o SubSeq(q, i + 1, Len(q))

\* lines 338-358: the pause or resume request settles
\* line 341: the pause branch awaits response.json() and ignores its value
PauseReportsFailure(outcome) == outcome = "throw"
\* lines 348-352: the resume branch checks data.success
ResumeReportsFailure(outcome) == outcome \in {"throw", "failResult"}
\* lines 348-349: if (data.success) setIsPaused(false)
ResumeClearsPausedMut(outcome) == outcome # "throw"
ResumeClearsPaused(outcome) == outcome = "ok"

pauseResumeStreaming_Response(i) ==
  /\ i \in 1..Len(pauseTasks)
  /\ \E outcome \in PauseOutcomes :
       LET t == pauseTasks[i] IN
       /\ lastPause' = [n |-> t.n, pause |-> t.pause, outcome |-> outcome,
                        released |-> t.released]
       /\ IF t.pause
            THEN /\ error' = IF PauseReportsFailure(outcome) THEN "pause" ELSE error
                 /\ UNCHANGED isPaused
            ELSE /\ error' = IF ResumeReportsFailure(outcome) THEN "resume" ELSE error
                 /\ isPaused' = IF ResumeClearsPaused(outcome) THEN FALSE ELSE isPaused
  /\ isPausingResuming' = FALSE
  /\ pauseTasks' = RemoveAt(pauseTasks, i)
  /\ UNCHANGED <<mounted, mode, isStreaming, isConnecting, connectionStatus,
                 liveInputId, streamRef, whipClientRef, streams, clients,
                 liveInputs, startTasks, stopGrace, stopDestroy, stopCalls,
                 pauseCalls, lastDestroy, pauseSentFor>>
  /\ UNCHANGED <<pollVars, recVars, apiVars>>

\* ---- stopStreaming ----

\* lines 379-386: the end of stopStreaming; ref is whipClientRef as it is then
stopStreaming_Finish(ref) ==
  /\ streamRef' = 0
  /\ isStreaming' = FALSE
  /\ connectionStatus' = "disconnected"
  /\ clients' = EffectCleanup(isStreaming, FALSE, clients, ref)

\* lines 361-372: click on Stop Streaming, up to its first await
stopStreaming ==
  /\ StopButtonEnabled
  /\ stopCalls < MaxStops
  /\ stopCalls' = stopCalls + 1
  /\ IF streamRef # 0
       THEN \* lines 364-366: stop the tracks, wait 1000 ms
            /\ streams' = StopTracks(streams, streamRef)
            /\ stopGrace' = stopGrace + 1
            /\ UNCHANGED <<isStreaming, connectionStatus, streamRef,
                           whipClientRef, clients, stopDestroy>>
       ELSE IF whipClientRef # 0
       THEN \* lines 370-372: await whipClientRef.current.destroy()
            /\ clients' = Destroy(clients, whipClientRef)
            /\ stopDestroy' = stopDestroy + 1
            /\ UNCHANGED <<isStreaming, connectionStatus, streamRef,
                           whipClientRef, streams, stopGrace>>
       ELSE \* nothing to await
            /\ stopStreaming_Finish(whipClientRef)
            /\ UNCHANGED <<whipClientRef, streams, stopGrace, stopDestroy>>
  /\ lastDestroy' = "none"
  /\ UNCHANGED <<compVars, isConnecting, isPaused, isPausingResuming, liveInputId,
                 liveInputs, startTasks, pauseTasks, pauseCalls, lastPause,
                 pauseSentFor>>
  /\ UNCHANGED <<pollVars, recVars, apiVars>>

\* lines 366-372: the grace period is over
stopStreaming_GraceOver ==
  /\ stopGrace > 0
  /\ stopGrace' = stopGrace - 1
  /\ IF whipClientRef # 0
       THEN /\ clients' = Destroy(clients, whipClientRef)
            /\ stopDestroy' = stopDestroy + 1
            /\ UNCHANGED <<isStreaming, connectionStatus, streamRef, whipClientRef>>
       ELSE /\ stopStreaming_Finish(whipClientRef)
            /\ UNCHANGED <<whipClientRef, stopDestroy>>
  /\ UNCHANGED <<compVars, isConnecting, isPaused, isPausingResuming, liveInputId,
                 streams, liveInputs, startTasks, stopCalls, pauseTasks,
                 pauseCalls, lastPause, lastDestroy, pauseSentFor>>
  /\ UNCHANGED <<pollVars, recVars, apiVars>>

\* lines 370-375: await whipClientRef.current.destroy() sits in a try block
\* of its own, whose catch only logs
DestroyErrorCaughtMut == FALSE
DestroyErrorCaught == TRUE

\* lines 372-390: destroy() settles, by resolving or by rejecting;
\* whipClientRef.current is set to null, then the references are cleared.
\* A rejection that were not caught at line 373 would reach the catch of
\* lines 387-390, which reports it and clears nothing.
stopStreaming_Destroyed ==
  /\ stopDestroy > 0
  /\ stopDestroy' = stopDestroy - 1
  /\ \E threw \in BOOLEAN :
       /\ lastDestroy' = IF threw THEN "threw" ELSE "ok"
       /\ IF threw /\ ~DestroyErrorCaught
            THEN /\ error' = "stop"
                 /\ UNCHANGED <<whipClientRef, streamRef, isStreaming,
                                connectionStatus, clients>>
            ELSE /\ whipClientRef' = 0
                 /\ stopStreaming_Finish(0)
                 /\ UNCHANGED error
  /\ UNCHANGED <<mounted, mode, isConnecting, isPaused, isPausingResuming, liveInputId,
                 streams, liveInputs, startTasks, stopGrace, stopCalls,
                 pauseTasks, pauseCalls, lastPause, pauseSentFor>>
  /\ UNCHANGED <<pollVars, recVars, apiVars>>

\* ---- unmount ----

\* lines 393-400: the cleanup of the effect runs with the isStreaming of the
\* last render.  It is the only cleanup the component registers: timeoutId of
\* a running pollVideoReadinessAndGenerateCaptions is not reachable from it.
Unmount ==
  /\ mounted
  /\ mounted' = FALSE
  /\ clients' = IF isStreaming THEN Destroy(clients, whipClientRef) ELSE clients
  /\ pendingAtUnmount' = timeoutId
  /\ UNCHANGED <<mode, error, isStreaming, isConnecting, connectionStatus,
                 isPaused, isPausingResuming, liveInputId, streamRef,
                 whipClientRef, streams, liveInputs, startTasks, stopGrace,
                 stopDestroy, stopCalls, pauseTasks, pauseCalls, lastPause, lastDestroy, pauseSentFor>>
  /\ UNCHANGED <<pollPc, attempts, timeoutId, statusFetches, captionRequests,
                 observed, lastStatus, lastCaption>>
  /\ UNCHANGED <<recVars, apiVars>>

\* ------------------------------------------------------------------------
\* Buffered Transport: recording and upload
\* ------------------------------------------------------------------------

\* lines 564-575: Start Recording is rendered in buffered mode when
\* !isRecording and disabled while isUploading
StartRecordingEnabled == mounted /\ mode = "buffered" /\ ~isRecording /\ ~isUploading

\* lines 576-585: Stop Recording is rendered in buffered mode when isRecording
\* and disabled while isUploading
StopRecordingEnabled == mounted /\ mode = "buffered" /\ isRecording /\ ~isUploading

\* lines 504, 521: the mode radios
ModeSwitchEnabled ==
  mounted /\ ~(isRecording \/ isUploading \/ isStreaming \/ isConnecting)

\* lines 493-523: onChange of a mode radio.  The radios are disabled while
\* isStreaming or isRecording, so the calls of stopStreaming and stopRecording
\* at lines 501-502 and 518-519 never run.
SetMode(m) ==
  /\ ModeSwitchEnabled
  /\ m # mode
  /\ mode' = m
  /\ error' = "none"
  /\ UNCHANGED <<mounted, liveVars, pollVars, recVars, apiVars>>

\* lines 163-171: click on Start Recording, up to await getUserMedia
startRecording ==
  /\ StartRecordingEnabled
  /\ recClicks' = recClicks + 1
  /\ error' = "none"
  /\ progress' = 0
  /\ recPending' = recPending + 1
  /\ UNCHANGED <<mounted, mode, liveVars, pollVars, apiVars>>
  /\ UNCHANGED <<isRecording, isUploading, videoId, recorderRef, recorders,
                 chunksRef, chunkCount, uploadTasks, lastUpload, sessions,
                 pollersStarted, completed>>

\* lines 168-212: how the rest of the try block of startRecording goes:
\*   "refused"    - getUserMedia rejects (line 168)
\*   "noRecorder" - the stream is stored (line 173), new MediaRecorder throws
\*                  (line 189)
\*   "noStart"    - the recorder is created and stored and the chunk array
\*                  replaced (lines 189-191), recorder.start throws (line 206)
\*   "recording"  - recorder.start returns and isRecording is set (line 207)
MediaOutcomes == {"refused", "noRecorder", "noStart", "recording"}

\* lines 167-212: getUserMedia settles.  On success the stream is stored in
\* streamRef, a MediaRecorder is created on it and stored in recorderRef,
\* chunksRef.current is replaced by an empty array and recording starts.
\* Whatever is thrown on the way is caught at line 208, which sets the error
\* and undoes nothing.
startRecording_Media ==
  /\ recPending > 0
  /\ recPending' = recPending - 1
  /\ \E outcome \in MediaOutcomes :
       /\ IF outcome = "refused"
            THEN UNCHANGED <<streams, streamRef>>
            ELSE /\ streams' = Append(streams, "running")
                 /\ streamRef' = Len(streams) + 1
       /\ IF outcome \in {"noStart", "recording"}
            THEN /\ recorders' = Append(recorders,
                      [state |-> IF outcome = "recording" THEN "recording"
                                 ELSE "inactive",
                       stream |-> Len(streams) + 1,
                       events |-> "none", chunks |-> 0])
                 /\ recorderRef' = Len(recorders) + 1
                 /\ chunksRef' = <<>>
            ELSE UNCHANGED <<recorders, recorderRef, chunksRef>>
       /\ IF outcome = "recording"
            THEN isRecording' = TRUE /\ UNCHANGED error
            ELSE error' = "record" /\ UNCHANGED isRecording
  /\ UNCHANGED <<mounted, mode, pollVars, apiVars>>
  /\ UNCHANGED <<isStreaming, isConnecting, connectionStatus, isPaused,
                 isPausingResuming, liveInputId, whipClientRef, clients,
                 liveInputs, startTasks, stopGrace, stopDestroy, stopCalls,
                 pauseTasks, pauseCalls, lastPause, lastDestroy, pauseSentFor>>
  /\ UNCHANGED <<isUploading, progress, videoId, chunkCount, recClicks,
                 uploadTasks, lastUpload, sessions, pollersStarted, completed>>

\* lines 193-197: recorder.ondataavailable of recorder r.  While the recorder
\* records, a chunk arrives every 1000 ms (recorder.start(1000)); after
\* requestData() and stop() (lines 217-218) two more dataavailable events
\* are delivered, one for each call, and the data of either may be empty.
\* A chunk of size > 0 is pushed onto whatever array chunksRef.current is
\* at that moment.  The events a stopped recorder has still to deliver:
\*   "requested" - the dataavailable event of requestData(), then that of
\*                 stop(), then the stop event
\*   "data"      - the dataavailable event of stop(), then the stop event
\*   "stop"      - the stop event
\* MaxChunks bounds the timeslice events only.
recorder_ondataavailable(r) ==
  /\ \/ /\ recorders[r].state = "recording"
        /\ chunkCount < MaxChunks
        /\ chunksRef' = Append(chunksRef, r)
        /\ chunkCount' = chunkCount + 1
        /\ recorders' = [recorders EXCEPT ![r].chunks = @ + 1]
     \/ /\ recorders[r].events \in {"requested", "data"}
        /\ \E hasData \in BOOLEAN :
             IF hasData
               THEN /\ chunksRef' = Append(chunksRef, r)
                    /\ recorders' = [recorders EXCEPT
                                       ![r].events = IF @ = "requested" THEN "data" ELSE "stop",
                                       ![r].chunks = @ + 1]
               ELSE /\ recorders' = [recorders EXCEPT
                                       ![r].events = IF @ = "requested" THEN "data" ELSE "stop"]
                    /\ UNCHANGED chunksRef
        /\ UNCHANGED chunkCount
  /\ UNCHANGED <<compVars, liveVars, pollVars, apiVars>>
  /\ UNCHANGED <<isRecording, isUploading, progress, videoId, recorderRef,
                 recClicks, recPending, uploadTasks, lastUpload, sessions,
                 pollersStarted, completed>>

\* lines 215-230: click on Stop Recording.  requestData() (line 217) and
\* stop() (line 218) each queue a dataavailable event; the stop event
\* follows them.
stopRecording ==
  /\ StopRecordingEnabled
  /\ IF recorderRef # 0 /\ recorders[recorderRef].state # "inactive"
       THEN /\ recorders' = [recorders EXCEPT ![recorderRef].state = "inactive",
                                               ![recorderRef].events = "requested"]
            /\ isRecording' = FALSE
       ELSE UNCHANGED <<recorders, isRecording>>
  /\ streams' = StopTracks(streams, streamRef)
  /\ streamRef' = 0
  /\ UNCHANGED <<compVars, pollVars, apiVars>>
  /\ UNCHANGED <<isStreaming, isConnecting, connectionStatus, isPaused,
                 isPausingResuming, liveInputId, whipClientRef, clients,
                 liveInputs, startTasks, stopGrace, stopDestroy, stopCalls,
                 pauseTasks, pauseCalls, lastPause, lastDestroy, pauseSentFor>>
  /\ UNCHANGED <<isUploading, progress, videoId, recorderRef, chunksRef,
                 chunkCount, recClicks, recPending, uploadTasks, lastUpload,
                 sessions, pollersStarted, completed>>

\* ---- uploadRecording ----

NewUpload(pc, log) ==
  [pc |-> pc, uid |-> 0, blob |-> <<>>, total |-> 0, loaded |-> 0, log |-> log,
   failedAt |-> "none", statusCheck |-> "none", recorder |-> 0]

\* the invocation of uploadRecording made by the onstop handler of recorder r
UploadOf(r, pc, log) == [NewUpload(pc, log) EXCEPT !.recorder = r]

SetUpload(i, t) == [uploadTasks EXCEPT ![i] = t]

\* lines 403-427: the start of uploadRecording, up to await fetch of
\* POST /api/stream/create
uploadRecording_Start ==
  /\ isUploading' = TRUE
  /\ progress' = 0

\* lines 199-204: recorder.onstop of recorder r: wait 100 ms if the recorder
\* now in recorderRef is inactive, then call uploadRecording
recorder_onstop(r) ==
  /\ recorders[r].events = "stop"
  /\ recorders' = [recorders EXCEPT ![r].events = "none"]
  /\ IF recorderRef # 0 /\ recorders[recorderRef].state = "inactive"
       THEN /\ uploadTasks' = Append(uploadTasks, UploadOf(r, "delay", <<>>))
            /\ UNCHANGED <<isUploading, progress>>
       ELSE /\ uploadTasks' = Append(uploadTasks, UploadOf(r, "create", <<0>>))
            /\ uploadRecording_Start
  /\ UNCHANGED <<compVars, liveVars, pollVars, apiVars>>
  /\ UNCHANGED <<isRecording, videoId, recorderRef, chunksRef, chunkCount,
                 recClicks, recPending, lastUpload, sessions, pollersStarted,
                 completed>>

\* lines 201-203, 403-427: the 100 ms are over; uploadRecording starts
uploadRecording(i) ==
  /\ uploadTasks[i].pc = "delay"
  /\ uploadTasks' = SetUpload(i, UploadOf(uploadTasks[i].recorder, "create", <<0>>))
  /\ uploadRecording_Start
  /\ UNCHANGED <<compVars, liveVars, pollVars, apiVars>>
  /\ UNCHANGED <<isRecording, videoId, recorderRef, recorders, chunksRef,
                 chunkCount, recClicks, recPending, lastUpload, sessions,
                 pollersStarted, completed>>

\* invocation i has returned; t is what it was when it did
UploadFinished(i, t) ==
  /\ uploadTasks' = RemoveAt(uploadTasks, i)
  /\ lastUpload' = t

\* the catch block of uploadRecording without the finally block of lines
\* 479-481
uploadRecording_CatchMut(i, t, step) ==
  /\ error' = "upload"
  /\ isUploading' = isUploading
  /\ UploadFinished(i, [t EXCEPT !.pc = "failed", !.failedAt = step])

\* lines 474-481: the catch and finally blocks of uploadRecording
uploadRecording_Catch(i, t, step) ==
  /\ error' = "upload"
  /\ isUploading' = FALSE
  /\ UploadFinished(i, [t EXCEPT !.pc = "failed", !.failedAt = step])

\* line 443: new Blob(chunksRef.current).size; every chunk that was pushed
\* has size > 0 (line 194), counted here as one unit each
BlobSize(blob) == Len(blob)

\* e.total of the progress events of one transfer
TransferTotals == {1, 2}

\* line 81: const progress = (e.loaded / e.total) * 100
ProgressOfMut(loaded, total) == loaded * 100
ProgressOf(loaded, total) == (loaded * 100) \div total

\* lines 420-439: the response of POST /api/stream/create (type "direct"):
\*   "throw"    - fetch or response.json() rejects
\*   "rejected" - result.success is false
\*   "noUrl"    - success, but result.data.uploadURL is missing
\*   "ok"       - success with an upload URL and a uid
UploadCreateOutcomes == {"throw", "rejected", "noUrl", "ok"}

\* lines 429-451: the response of POST /api/stream/create arrives.  On "ok"
\* an upload session exists; only then is the payload assembled from
\* chunksRef.current and its size checked (line 445), and a non-empty payload
\* is sent to /api/stream/upload.
uploadRecording_Created(i) ==
  /\ uploadTasks[i].pc = "create"
  /\ \E outcome \in UploadCreateOutcomes :
       LET t == uploadTasks[i]
           uid == Len(sessions) + 1 IN
       IF outcome = "ok"
         THEN /\ videoId' = uid
              /\ IF BlobSize(chunksRef) = 0
                   THEN /\ sessions' = Append(sessions, 0)
                        /\ uploadRecording_Catch(i, [t EXCEPT !.uid = uid], "empty")
                        /\ UNCHANGED progress
                   ELSE /\ sessions' = Append(sessions, 1)
                        /\ \E total \in TransferTotals :
                             uploadTasks' = SetUpload(i, [t EXCEPT
                               !.pc = "transfer", !.uid = uid, !.blob = chunksRef,
                               !.total = total])
                        /\ UNCHANGED <<error, isUploading, progress, lastUpload>>
         ELSE /\ uploadRecording_Catch(i, t,
                   IF outcome = "noUrl" THEN "noUrl" ELSE "create")
              /\ UNCHANGED <<videoId, sessions, progress>>
  /\ UNCHANGED <<mounted, mode, liveVars, pollVars, apiVars>>
  /\ UNCHANGED <<isRecording, recorderRef, recorders, chunksRef, chunkCount,
                 recClicks, recPending, pollersStarted, completed>>

\* lines 79-84, 449-451: a progress event of the transfer; e.loaded grows
\* from event to event and never exceeds e.total
uploadVideoChunk_progress(i) ==
  /\ uploadTasks[i].pc = "transfer"
  /\ \E loaded \in (uploadTasks[i].loaded + 1)..uploadTasks[i].total,
        lengthComputable \in BOOLEAN :
       LET t == uploadTasks[i]
           p == ProgressOf(loaded, t.total) IN
       IF lengthComputable
         THEN /\ progress' = p
              /\ uploadTasks' = SetUpload(i, [t EXCEPT !.loaded = loaded,
                                                       !.log = Append(t.log, p)])
         ELSE /\ uploadTasks' = SetUpload(i, [t EXCEPT !.loaded = loaded])
              /\ UNCHANGED progress
  /\ UNCHANGED <<compVars, liveVars, pollVars, apiVars>>
  /\ UNCHANGED <<isRecording, isUploading, videoId, recorderRef, recorders,
                 chunksRef, chunkCount, recClicks, recPending, lastUpload,
                 sessions, pollersStarted, completed>>

\* the XMLHttpRequest of a settled transfer delivers no further event
XhrGone(t) == [t EXCEPT !.total = 0, !.loaded = 0]

\* lines 86-119, 449-456: the transfer settles.  It resolves on a 2xx answer
\* with success: true or an unparsable body, and rejects otherwise (success:
\* false, another status, a network error, an abort).  After a resolved
\* transfer GET /api/stream/status is requested.
uploadVideoChunk_Settled(i) ==
  /\ uploadTasks[i].pc = "transfer"
  /\ \E resolved \in BOOLEAN :
       IF resolved
         THEN /\ uploadTasks' = SetUpload(i, XhrGone([uploadTasks[i] EXCEPT !.pc = "status"]))
              /\ UNCHANGED <<error, isUploading, lastUpload>>
         ELSE uploadRecording_Catch(i, XhrGone(uploadTasks[i]), "transfer")
  /\ UNCHANGED <<mounted, mode, liveVars, pollVars, apiVars>>
  /\ UNCHANGED <<isRecording, progress, videoId, recorderRef, recorders,
                 chunksRef, chunkCount, recClicks, recPending, sessions,
                 pollersStarted, completed>>

\* the answer to the status check of lines 454-456:
\*   "throw" - fetch or json() rejects
\*   "error" - success with status.state === "error"
\*   "fine"  - anything else
StatusCheckOutcomes == {"throw", "error", "fine"}

\* line 467: the value reported when the upload has succeeded
CompletionProgress == 100

\* lines 453-481: the status check settles.  The Error thrown at line 461 is
\* thrown inside the try block whose catch (lines 463-465) ignores it, so
\* every outcome continues at line 467; line 470 starts the Readiness Poller
\* within this step.
uploadRecording_StatusChecked(i) ==
  /\ uploadTasks[i].pc = "status"
  /\ \E outcome \in StatusCheckOutcomes :
       LET t == uploadTasks[i] IN
       /\ progress' = CompletionProgress
       /\ chunksRef' = <<>>
       /\ pollersStarted' = Append(pollersStarted, t.uid)
       /\ PollerStarted
       /\ completed' = Append(completed, t.uid)
       /\ isUploading' = FALSE
       /\ UploadFinished(i, [t EXCEPT !.pc = "done",
                            !.statusCheck = outcome,
                            !.log = Append(t.log, CompletionProgress)])
  /\ UNCHANGED <<compVars, liveVars, apiVars>>
  /\ UNCHANGED <<isRecording, videoId, recorderRef, recorders, chunkCount,
                 recClicks, recPending, sessions>>

\* MediaRecorder: when every track of the recorded stream has ended, the
\* recorder stops by itself and delivers its last data and its stop event.
\* stopRecording (lines 216-224) stops the recorder before the tracks; other
\* handlers stop the tracks of whatever streamRef references.
recorder_TracksEnded(r) ==
  /\ recorders[r].state = "recording"
  /\ streams[recorders[r].stream] = "stopped"
  /\ recorders' = [recorders EXCEPT ![r].state = "inactive", ![r].events = "data"]
  /\ UNCHANGED <<compVars, liveVars, pollVars, apiVars>>
  /\ UNCHANGED <<isRecording, isUploading, progress, videoId, recorderRef,
                 chunksRef, chunkCount, recClicks, recPending, uploadTasks,
                 lastUpload, sessions, pollersStarted, completed>>

\* ------------------------------------------------------------------------
\* Playback Resolver (GET /api/videos/list and GET /api/videos/[id])
\* ------------------------------------------------------------------------

\* A URL is a sequence of its parts; <<>> is an absent or empty field.
\*   "sub"   - https://${customerSubdomain}
\*   "uid"   - /${video.uid}, the raw identifier
\*   "tok"   - /${signedToken}
\*   "thumb" - /thumbnails/thumbnail.jpg
\*   "q"     - ?time=1s&height=270
\*   "x"     - any other text the platform supplied
UrlParts == {"sub", "uid", "tok", "thumb", "q", "x"}

RECURSIVE UrlsOfLen(_)
UrlsOfLen(n) ==
  IF n = 0 THEN {<<>>}
  ELSE {Append(u, p) : u \in UrlsOfLen(n - 1), p \in UrlParts}

Urls == UNION {UrlsOfLen(n) : n \in 0..MaxUrlLen}

PlaybackFields == {"iframe", "hls", "dash", "whep"}

\* the assets a request may find: a thumbnail of any form, and each playback
\* field absent or supplied by the platform
Assets ==
  [uid : {"uid"}, thumbnail : Urls, playback : [PlaybackFields -> {<<>>, <<"x">>}]]

\* String.prototype.includes
Includes(url, part) == \E j \in 1..Len(url) : url[j] = part

\* String.prototype.replace with a string pattern: the first occurrence only
ReplaceFirst(url, part, by) ==
  IF ~Includes(url, part) THEN url
  ELSE LET j == CHOOSE k \in 1..Len(url) :
                  url[k] = part /\ \A l \in 1..(k - 1) : url[l] # part
       IN [url EXCEPT ![j] = by]

\* list/route.ts line 60, part_000 line 58: signedToken || video.uid
PlaybackId(token) == IF token THEN "tok" ELSE "uid"

\* list/route.ts lines 67, 70: the default thumbnail URL
DefaultThumbnail(id) == <<"sub", id, "thumb", "q">>

\* list/route.ts lines 62-71, part_000 lines 60-68 (the same statement in
\* both routes, with the subdomain configured)
ResolveThumbnail(thumbnail, token) ==
  IF token
    THEN IF thumbnail # <<>> /\ Includes(thumbnail, "uid")
           THEN ReplaceFirst(thumbnail, "uid", "tok")
           ELSE DefaultThumbnail("tok")
    ELSE IF thumbnail = <<>> THEN DefaultThumbnail("uid") ELSE thumbnail

\* the URLs built from the subdomain and the playback identifier
BuiltUrl(field, id) == <<"sub", id, field>>

\* a || b on strings
OrElse(a, b) == IF a # <<>> THEN a ELSE b

\* list/route.ts lines 50-88: the enhancement of one video of the list
EnhanceListed(video, subdomain, token) ==
  IF subdomain
    THEN LET id == PlaybackId(token)
             playback == video.playback
             whepUrl == BuiltUrl("whep", id) IN
         [video EXCEPT
            !.thumbnail = ResolveThumbnail(video.thumbnail, token),
            !.playback = [iframe |-> OrElse(playback.iframe, BuiltUrl("iframe", id)),
                          hls |-> OrElse(playback.hls, BuiltUrl("hls", id)),
                          dash |-> OrElse(playback.dash, BuiltUrl("dash", id)),
                          whep |-> OrElse(whepUrl, playback.whep)]]
    ELSE video

\* part_000 lines 45-87: the enhancement of the single video
EnhanceSingle(video, subdomain, token) ==
  IF subdomain
    THEN LET id == PlaybackId(token)
             playback == video.playback IN
         [video EXCEPT
            !.thumbnail = ResolveThumbnail(video.thumbnail, token),
            !.playback = [iframe |-> OrElse(playback.iframe, BuiltUrl("iframe", id)),
                          hls |-> OrElse(playback.hls, BuiltUrl("hls", id)),
                          dash |-> OrElse(playback.dash, BuiltUrl("dash", id)),
                          whep |-> OrElse(playback.whep, BuiltUrl("whep", id))]]
    ELSE video

\* list/route.ts lines 99-138: the playback and thumbnail of one recording
\* of the list
ResolveRecording(recording, subdomain, token) ==
  IF subdomain
    THEN LET id == PlaybackId(token)
             playback == recording.playback IN
         [recording EXCEPT
            !.thumbnail = ResolveThumbnail(recording.thumbnail, token),
            !.playback = [iframe |-> OrElse(playback.iframe, BuiltUrl("iframe", id)),
                          hls |-> OrElse(playback.hls, BuiltUrl("hls", id)),
                          dash |-> OrElse(playback.dash, BuiltUrl("dash", id)),
                          whep |-> playback.whep]]
    ELSE recording

\* videos/[id]/route.ts lines 12-29: the route that signs nothing; it fills
\* iframe, hls and dash from the raw identifier and touches nothing else
EnhancePlain(video, subdomain) ==
  IF subdomain
    THEN LET playback == video.playback IN
         [video EXCEPT
            !.playback = [iframe |-> OrElse(playback.iframe, BuiltUrl("iframe", "uid")),
                          hls |-> OrElse(playback.hls, BuiltUrl("hls", "uid")),
                          dash |-> OrElse(playback.dash, BuiltUrl("dash", "uid")),
                          whep |-> playback.whep]]
    ELSE video

Enhance(route, video, subdomain, token) ==
  CASE route = "list" -> EnhanceListed(video, subdomain, token)
    [] route = "recording" -> ResolveRecording(video, subdomain, token)
    [] route = "plain" -> EnhancePlain(video, subdomain)
    [] OTHER -> EnhanceSingle(video, subdomain, token)

\* list/route.ts lines 50-58 and 99-107, part_000 lines 48-56: the token is
\* requested inside if (customerSubdomain)
RequestsTokenMut(subdomain) == TRUE
RequestsToken(subdomain) == subdomain

\* list/route.ts lines 54-58 and 103-107, part_000 lines 52-56: the call of
\* generateSignedToken sits in a try whose catch is empty
TokenFailureCaughtMut == FALSE
TokenFailureCaught == TRUE

\* the answer of a signing route: the resolved asset, or a failure when the
\* error of generateSignedToken leaves the handler
Answer(route) ==
  /\ resPc = "request" /\ resRoute = route
  /\ resTokenRequests' = IF RequestsToken(resSub) THEN 1 ELSE 0
  /\ IF RequestsToken(resSub) /\ ~resTok /\ ~TokenFailureCaught
       THEN resPc' = "failed" /\ resOut' = resOut
       ELSE resPc' = "once" /\ resOut' = Enhance(route, resIn, resSub, resTok)
  /\ UNCHANGED <<clientVars, gwVars, aggVars, netVars, resRoute, resIn, resSub, resTok, resOut2>>

\* GET /api/videos/list resolves the playback of a listed video
videos_list_GET == Answer("list")

\* GET /api/videos/list resolves the playback of a listed recording
videos_list_GET_recording == Answer("recording")

\* GET /api/videos/[id] resolves the playback of the video
videos_id_GET == Answer("single")

\* GET /api/videos/[id] of videos/[id]/route.ts: no token is requested
videos_id_GET_plain ==
  /\ resPc = "request" /\ resRoute = "plain"
  /\ resOut' = EnhancePlain(resIn, resSub)
  /\ resPc' = "once"
  /\ UNCHANGED <<clientVars, gwVars, aggVars, netVars, resRoute, resIn, resSub, resTok, resOut2,
                 resTokenRequests>>

\* the same route resolves an asset equal to its own answer, with the same
\* subdomain and the same token outcome
ResolveAgain ==
  /\ resPc = "once"
  /\ resOut2' = Enhance(resRoute, resOut, resSub, resTok)
  /\ resPc' = "twice"
  /\ resTokenRequests' =
       IF resRoute # "plain" /\ RequestsToken(resSub)
         THEN resTokenRequests + 1 ELSE resTokenRequests
  /\ UNCHANGED <<clientVars, gwVars, aggVars, netVars, resRoute, resIn, resSub, resTok, resOut>>

\* ------------------------------------------------------------------------
\* Platform Gateway (lib/cloudflare.ts)
\* ------------------------------------------------------------------------

\* cloudflare.ts line 33: response.status === 204
NoContent == 204
\* cloudflare.ts line 99: response.status === 404
NotFound == 404

Statuses == {200, NoContent, NotFound, 500}

\* the text of a response body:
\*   "blank"       - empty or white space
\*   "garbage"     - text that JSON.parse rejects
\*   "array"       - a JSON array, bare or as the result of an envelope
\*   "object"      - a JSON object without a token and without a WebRTC
\*                   url, bare or as a result
\*   "liveInput"   - a JSON object with webRTC.url and webRTCPlayback.url
\*   "ingestOnly"  - a JSON object with webRTC.url only
\*   "tokenObject" - a JSON object with a token, bare or as a result
\*   "string"      - a JSON string, bare or as a result
\*   "nullResult"  - an envelope whose result is null
Bodies == {"blank", "garbage", "array", "object", "liveInput", "ingestOnly",
           "tokenObject", "string", "nullResult"}

\* what fetch gives: a rejection, or a response with a status, a
\* content-length header of "0" or not, a JSON content type or not, and a
\* body; a response of status 204 or of length zero carries no text
Responses ==
  {r \in [rejected : BOOLEAN, status : Statuses, lengthZero : BOOLEAN,
          jsonType : BOOLEAN, body : Bodies] :
     (r.status = NoContent \/ r.lengthZero) => r.body = "blank"}

\* response.ok
Ok(resp) == resp.status \in 200..299

\* what an operation gives its caller, and the number of fetch calls made
Failure(err, n) == [kind |-> "error", value |-> "none", error |-> err, fetches |-> n]
Success(v, n) == [kind |-> "value", value |-> v, error |-> "none", fetches |-> n]

\* cloudflare.ts line 46 and line 106: data.result || data
Unwrapped(body) == IF body = "nullResult" THEN "object" ELSE body

\* cloudflare.ts lines 7-53
cloudflareRequest(configured, resp) ==
  IF ~configured THEN Failure("config", 0)
  ELSE IF resp.rejected THEN Failure("network", 1)
  ELSE IF ~Ok(resp) THEN Failure("remote", 1)
  ELSE IF resp.status = NoContent \/ resp.lengthZero \/ ~resp.jsonType
    THEN Success("emptyObject", 1)
  ELSE IF resp.body = "blank" THEN Success("emptyObject", 1)
  ELSE IF resp.body = "garbage" THEN Success("emptyObject", 1)
  ELSE Success(Unwrapped(resp.body), 1)

\* cloudflare.ts lines 118, 184 and 108: Array.isArray(x) ? x : []
ListOrEmpty(value) == IF value = "array" THEN "array" ELSE "emptyArray"

\* cloudflare.ts lines 182-185
listVideos(configured, resp) ==
  LET r == cloudflareRequest(configured, resp) IN
  IF r.kind = "error" THEN r ELSE [r EXCEPT !.value = ListOrEmpty(r.value)]

\* cloudflare.ts lines 116-119
listLiveInputs(configured, resp) ==
  LET r == cloudflareRequest(configured, resp) IN
  IF r.kind = "error" THEN r ELSE [r EXCEPT !.value = ListOrEmpty(r.value)]

\* cloudflare.ts lines 209-228
generateSignedToken(configured, resp) ==
  LET r == cloudflareRequest(configured, resp) IN
  IF r.kind = "error" THEN r
  ELSE IF r.value \in {"tokenObject", "string"} THEN [r EXCEPT !.value = "token"]
  ELSE Failure("extract", r.fetches)

\* cloudflare.ts lines 85-113: fetch is called directly, whatever the
\* configuration; every error raised inside the try is caught at line 109
getLiveInputRecordings(configured, resp) ==
  LET raised == \/ resp.rejected
                \/ ~Ok(resp) /\ resp.status # NotFound
                \/ Ok(resp) /\ resp.body \in {"blank", "garbage"} IN
  IF raised THEN Success("emptyArray", 1)
  ELSE IF ~Ok(resp) THEN Success("emptyArray", 1)
  ELSE Success(ListOrEmpty(Unwrapped(resp.body)), 1)

\* cloudflare.ts lines 56-82, 122-156, 177-179, 231-238: the operations that
\* return what cloudflareRequest gave them
ForwardingOps == {"createDirectUpload", "createLiveInput", "getLiveInputStatus",
                  "updateLiveInputRecording", "pauseLiveInput", "resumeLiveInput",
                  "getVideo", "updateVideoToRequireSignedURLs"}

Forwarded(configured, resp) == cloudflareRequest(configured, resp)

\* cloudflare.ts lines 188-206: deleteVideo, deleteLiveInput and
\* generateCaptions await cloudflareRequest and return nothing
VoidOps == {"deleteVideo", "deleteLiveInput", "generateCaptions"}

Voided(configured, resp) ==
  LET r == cloudflareRequest(configured, resp) IN
  IF r.kind = "error" THEN r ELSE [r EXCEPT !.value = "undefined"]

\* cloudflare.ts lines 159-174: getLiveInputWebRTCUrl reads webRTC.url and
\* getLiveInputWebRTCPlaybackUrl reads webRTCPlayback.url of what
\* getLiveInputStatus gave; a missing url is an error of their own
UrlOps == {"getLiveInputWebRTCUrl", "getLiveInputWebRTCPlaybackUrl"}

HasUrl(op, value) ==
  IF op = "getLiveInputWebRTCUrl" THEN value \in {"liveInput", "ingestOnly"}
  ELSE value = "liveInput"

UrlOf(op, configured, resp) ==
  LET r == Forwarded(configured, resp) IN
  IF r.kind = "error" THEN r
  ELSE IF HasUrl(op, r.value) THEN [r EXCEPT !.value = "url"]
  ELSE Failure("urlMissing", r.fetches)

\* cloudflare.ts lines 241-276: fetch is called on the upload URL without a
\* look at the credentials; a rejected fetch propagates, a response that is
\* not ok raises the upload error, and nothing is returned otherwise
uploadVideoChunk(configured, resp) ==
  IF resp.rejected THEN Failure("network", 1)
  ELSE IF ~Ok(resp) THEN Failure("upload", 1)
  ELSE Success("undefined", 1)

\* an operation returns to its caller
Returns(op, result) ==
  /\ gwPc = "call" /\ gwOp = op
  /\ gwResult' = result
  /\ gwPc' = "returned"
  /\ UNCHANGED <<clientVars, resVars, aggVars, netVars, gwOp, gwConfigured, gwResponse>>

gateway_cloudflareRequest ==
  Returns("cloudflareRequest", cloudflareRequest(gwConfigured, gwResponse))

gateway_listVideos ==
  Returns("listVideos", listVideos(gwConfigured, gwResponse))

gateway_listLiveInputs ==
  Returns("listLiveInputs", listLiveInputs(gwConfigured, gwResponse))

gateway_generateSignedToken ==
  Returns("generateSignedToken", generateSignedToken(gwConfigured, gwResponse))

gateway_getLiveInputRecordings ==
  Returns("getLiveInputRecordings", getLiveInputRecordings(gwConfigured, gwResponse))

gateway_forwarding(op) ==
  Returns(op, Forwarded(gwConfigured, gwResponse))

gateway_void(op) ==
  Returns(op, Voided(gwConfigured, gwResponse))

gateway_url(op) ==
  Returns(op, UrlOf(op, gwConfigured, gwResponse))

gateway_uploadVideoChunk ==
  Returns("uploadVideoChunk", uploadVideoChunk(gwConfigured, gwResponse))

\* cloudflareRequest and every exported operation of lib/cloudflare.ts
GatewayOps ==
  {"cloudflareRequest", "listVideos", "listLiveInputs", "generateSignedToken",
   "getLiveInputRecordings", "uploadVideoChunk"}
    \cup ForwardingOps \cup VoidOps \cup UrlOps

\* ------------------------------------------------------------------------
\* Library Aggregator (GET /api/videos/list)
\* ------------------------------------------------------------------------

\* the uids of the platform's assets: the videos listVideos may give and the
\* recordings getLiveInputRecordings may give; "b" may be in both
VideoUids == {"a", "b"}
RecordingUids == {"b", "c"}

\* created: 0 when the asset has no creation time, else the time
Times == {0, 1, 2}

\* the creation times of the videos: none, or one that a recording may
\* share or come after
VideoTimes == {0, 1}

NoPlayback == [f \in PlaybackFields |-> <<>>]

\* an asset as the platform lists it; a flag is "true" or "absent"
PlatformAsset(uid, created, state, ready) ==
  [uid |-> uid, created |-> created, state |-> state, readyToStream |-> ready,
   isLive |-> "absent", isLiveRecording |-> "absent", liveInputId |-> 0,
   thumbnail |-> <<>>, playback |-> NoPlayback]

ListedVideos ==
  {PlatformAsset(u, c, "ready", "true") : u \in VideoUids, c \in VideoTimes}

ListedRecordings ==
  {PlatformAsset(u, c, st, r) : u \in RecordingUids, c \in Times,
                                st \in {"ready", "inprogress"},
                                r \in {"true", "absent"}}

\* the lists of at most two assets of a set, each uid at most once
ListsOf(assets) ==
  {<<>>} \cup {<<x>> : x \in assets}
         \cup {p \in {<<x, y>> : x \in assets, y \in assets} : p[1].uid # p[2].uid}

\* the live inputs of the platform: input i has uid i, or no uid (0)
LiveInputLists ==
  UNION {[1..n -> BOOLEAN] : n \in 0..MaxInputs}

UidsOf(list) == {list[i].uid : i \in 1..Len(list)}

RECURSIVE SelectSeqBy(_, _)
\* Array.prototype.filter
SelectSeqBy(list, keep) ==
  IF list = <<>> THEN <<>>
  ELSE LET rest == SelectSeqBy(Tail(list), keep) IN
       IF Head(list) \in keep THEN <<Head(list)>> \o rest ELSE rest

\* list/route.ts lines 20-24: the filter of the recordings of one input
KeepsRecordingMut(r) == r.state = "ready"
KeepsRecording(r) == r.state = "ready" \/ r.readyToStream = "true"

\* list/route.ts lines 25-30: the tags of a kept recording
Tagged(r, inputUid) ==
  [r EXCEPT !.isLive = "false", !.isLiveRecording = "true",
            !.liveInputId = inputUid]

\* list/route.ts lines 19-30
ReadyRecordings(recordings, inputUid) ==
  LET kept == SelectSeqBy(recordings,
                          {recordings[i] : i \in {j \in 1..Len(recordings) :
                                                   KeepsRecording(recordings[j])}})
  IN [i \in 1..Len(kept) |-> Tagged(kept[i], inputUid)]

\* list/route.ts lines 39-43: the recordings whose uid no video has
UniqueRecordingsMut(all, videos) == all
UniqueRecordings(all, videos) ==
  SelectSeqBy(all, {all[i] : i \in {j \in 1..Len(all) :
                                    all[j].uid \notin UidsOf(videos)}})

\* list/route.ts lines 96-98, 128-129, 141-145: the flags of a listed
\* recording; readyToStream ?? true
EnhanceRecording(recording, subdomain, token) ==
  [ResolveRecording(recording, subdomain, token) EXCEPT
     !.isLive = "false",
     !.readyToStream = IF recording.readyToStream = "absent" THEN "true"
                       ELSE recording.readyToStream]

\* list/route.ts lines 149-150: a.created ? new Date(a.created).getTime() : 0
CreatedTime(asset) == IF asset.created # 0 THEN asset.created ELSE 0

\* list/route.ts line 151: the comparator bDate - aDate is positive, b goes
\* before a
GoesBeforeMut(b, a) == CreatedTime(b) - CreatedTime(a) < 0
GoesBefore(b, a) == CreatedTime(b) - CreatedTime(a) > 0

\* x placed in a sorted list: before the first element it goes before
InsertSorted(list, x) ==
  LET later == {i \in 1..Len(list) : GoesBefore(x, list[i])}
      at == IF later = {} THEN Len(list) + 1
            ELSE CHOOSE i \in later : \A j \in later : i <= j
  IN SubSeq(list, 1, at - 1) \o <<x>> \o SubSeq(list, at, Len(list))

RECURSIVE SortByCreated(_)
\* list/route.ts lines 148-153: Array.prototype.sort, which is stable
SortByCreated(list) ==
  IF list = <<>> THEN <<>>
  ELSE InsertSorted(SortByCreated(SubSeq(list, 1, Len(list) - 1)), list[Len(list)])

\* list/route.ts lines 7-10: both lists arrive, or the request fails
list_GET_lists ==
  /\ aggPc = "request"
  /\ \E failed \in BOOLEAN :
       aggPc' = IF failed THEN "failed" ELSE "loop"
  /\ UNCHANGED <<clientVars, resVars, gwVars, netVars, aggSub, aggTok, aggVideos,
                 aggInputs, aggIdx, aggAll, aggFetched, aggOut>>

\* list/route.ts lines 33-35, after cloudflare.ts lines 109-112: an error
\* raised while the recordings of one input are fetched stays in the loop
RecordingsFailureSwallowedMut == FALSE
RecordingsFailureSwallowed == TRUE

\* the recordings the platform has not supplied yet in this request
Unsupplied ==
  {r \in ListedRecordings :
     \A i \in 1..Len(aggFetched) : r.uid \notin UidsOf(aggFetched[i].list)}

\* list/route.ts lines 13-37: one turn of the loop over the live inputs,
\* the platform answering with one of the given lists
LoopTurn(lists) ==
  /\ aggPc = "loop" /\ aggIdx <= Len(aggInputs)
  /\ aggIdx' = aggIdx + 1
  /\ IF ~aggInputs[aggIdx]
       THEN /\ aggFetched' = Append(aggFetched, [outcome |-> "skipped", list |-> <<>>])
            /\ UNCHANGED <<aggAll, aggPc>>
       ELSE \/ /\ aggFetched' = Append(aggFetched, [outcome |-> "failed", list |-> <<>>])
               /\ aggPc' = IF RecordingsFailureSwallowed THEN aggPc ELSE "failed"
               /\ UNCHANGED aggAll
            \/ \E recordings \in lists :
                 /\ aggFetched' = Append(aggFetched, [outcome |-> "ok", list |-> recordings])
                 /\ aggAll' = aggAll \o ReadyRecordings(recordings, aggIdx)
                 /\ UNCHANGED aggPc
  /\ UNCHANGED <<clientVars, resVars, gwVars, netVars, aggSub, aggTok, aggVideos,
                 aggInputs, aggOut>>

\* one turn of the loop, every recording supplied once in the request
list_GET_recordings == LoopTurn(ListsOf(Unsupplied))

\* recordings the platform may list again: under a second live input, or a
\* second time under the same one
RelistedRecordings ==
  {PlatformAsset(u, 1, "ready", "true") : u \in RecordingUids}
    \cup {PlatformAsset(u, 1, "inprogress", "absent") : u \in RecordingUids}

\* the lists of at most two assets of a set, a uid possibly twice
RepeatingListsOf(assets) ==
  {<<>>} \cup {<<x>> : x \in assets} \cup {<<x, y>> : x \in assets, y \in assets}

\* one turn of the loop, the platform free to list a recording again
list_GET_recordings_relisted == LoopTurn(RepeatingListsOf(RelistedRecordings))

\* list/route.ts lines 53-58, 102-107: generateSignedToken is called once
\* for each of the n assets of the answer, each call in a try block of its
\* own, and only when the subdomain is configured; each call gives a token
\* or fails by itself
TokenOutcomes(n, subdomain) ==
  IF subdomain THEN [1..n -> BOOLEAN] ELSE {[i \in 1..n |-> FALSE]}

\* list/route.ts lines 39-165: the loop is over; the recordings are
\* deduplicated against the videos, both lists are resolved, joined and
\* sorted.  An error of generateSignedToken that left the try block of its
\* asset would reject the Promise.all of line 48 or 93 and be answered by
\* the catch of lines 156-165.
list_GET_respond ==
  /\ aggPc = "loop" /\ aggIdx > Len(aggInputs)
  /\ LET uniqueRecordings == UniqueRecordings(aggAll, aggVideos)
         nv == Len(aggVideos)
         n == nv + Len(uniqueRecordings)
     IN \E tokens \in TokenOutcomes(n, aggSub) :
          LET enhancedVideos ==
                [i \in 1..nv |-> EnhanceListed(aggVideos[i], aggSub, tokens[i])]
              enhancedRecordings ==
                [i \in 1..Len(uniqueRecordings) |->
                   EnhanceRecording(uniqueRecordings[i], aggSub, tokens[nv + i])]
          IN /\ aggTok' = tokens
             /\ IF /\ RequestsToken(aggSub)
                   /\ \E i \in 1..n : ~tokens[i]
                   /\ ~TokenFailureCaught
                  THEN /\ aggPc' = "failed"
                       /\ aggOut' = aggOut
                  ELSE /\ aggPc' = "done"
                       /\ aggOut' = SortByCreated(enhancedVideos \o enhancedRecordings)
  /\ UNCHANGED <<clientVars, resVars, gwVars, netVars, aggSub, aggVideos,
                 aggInputs, aggIdx, aggAll, aggFetched>>

\* ------------------------------------------------------------------------
\* Library Aggregator: the order of its fetches (list/route.ts lines 7-37)
\* ------------------------------------------------------------------------

\* how a pending fetch settles
Settlements == {"done", "failed"}

\* list/route.ts lines 7-10: listVideos() and listLiveInputs() are both
\* called before Promise.all awaits them
list_GET_issue ==
  /\ netPc = "start"
  /\ netVideosFetch' = "pending"
  /\ netInputsFetch' = "pending"
  /\ netPc' = "lists"
  /\ UNCHANGED <<clientVars, resVars, gwVars, aggVars, netInputs,
                 netRecordingsFetch, netIdx>>

\* what Promise.all of line 7 makes of the two fetches: it rejects with the
\* first failure, it resolves when both are done
AfterLists(pc, videos, inputs) ==
  IF pc # "lists" THEN pc
  ELSE IF "failed" \in {videos, inputs} THEN "failed"
  ELSE IF videos = "done" /\ inputs = "done" THEN "loop"
  ELSE pc

\* the response of listVideos arrives
listVideos_settles ==
  /\ netVideosFetch = "pending"
  /\ \E how \in Settlements :
       /\ netVideosFetch' = how
       /\ netPc' = AfterLists(netPc, how, netInputsFetch)
  /\ UNCHANGED <<clientVars, resVars, gwVars, aggVars, netInputs,
                 netInputsFetch, netRecordingsFetch, netIdx>>

\* the response of listLiveInputs arrives
listLiveInputs_settles ==
  /\ netInputsFetch = "pending"
  /\ \E how \in Settlements :
       /\ netInputsFetch' = how
       /\ netPc' = AfterLists(netPc, netVideosFetch, how)
  /\ UNCHANGED <<clientVars, resVars, gwVars, aggVars, netInputs,
                 netVideosFetch, netRecordingsFetch, netIdx>>

\* list/route.ts lines 14-17: the loop reaches a live input; with a uid its
\* recordings are fetched and awaited, without one the loop goes on
list_GET_loop ==
  /\ netPc = "loop" /\ netIdx <= Len(netInputs)
  /\ IF netInputs[netIdx]
       THEN /\ netRecordingsFetch' = [netRecordingsFetch EXCEPT ![netIdx] = "pending"]
            /\ netPc' = "recordings"
            /\ UNCHANGED netIdx
       ELSE /\ netIdx' = netIdx + 1
            /\ UNCHANGED <<netRecordingsFetch, netPc>>
  /\ UNCHANGED <<clientVars, resVars, gwVars, aggVars, netInputs,
                 netVideosFetch, netInputsFetch>>

\* list/route.ts lines 17-36: the awaited recordings arrive, or the fetch
\* fails and the failure is ignored; the loop goes on
getLiveInputRecordings_settles ==
  /\ netPc = "recordings"
  /\ \E how \in Settlements :
       netRecordingsFetch' = [netRecordingsFetch EXCEPT ![netIdx] = how]
  /\ netIdx' = netIdx + 1
  /\ netPc' = "loop"
  /\ UNCHANGED <<clientVars, resVars, gwVars, aggVars, netInputs,
                 netVideosFetch, netInputsFetch>>

\* list/route.ts lines 39-155: the loop is over, the lists are merged
list_GET_merge ==
  /\ netPc = "loop" /\ netIdx > Len(netInputs)
  /\ netPc' = "merge"
  /\ UNCHANGED <<clientVars, resVars, gwVars, aggVars, netInputs,
                 netVideosFetch, netInputsFetch, netRecordingsFetch, netIdx>>

\* ------------------------------------------------------------------------
\* Live inputs resolved for display (GET /api/live-inputs/[id] and /list)
\* ------------------------------------------------------------------------

\* a live input as the platform gives it: with a uid or without, live or
\* not, and with any webRTCPlayback url or none
LiveInputRecords ==
  [uid : {"uid", ""}, state : {"live", "disconnected"}, whep : Urls]

\* live-inputs/[id]/route.ts lines 35 and 41, live-inputs/list/route.ts
\* line 27: liveInput.webRTCPlayback?.url
LiveWhepMut(input) == OrElse(input.whep, BuiltUrl("whep", "uid"))
LiveWhep(input) == input.whep

\* the status of the Video-like object: "live" ? "ready" : "queued"
LiveState(input) == IF input.state = "live" THEN "ready" ELSE "queued"

\* live-inputs/[id]/route.ts lines 15-43; the route's id parameter is the
\* raw identifier
ConvertLiveInput(input, subdomain) ==
  LET video == [uid |-> "uid", isLive |-> TRUE, liveInputId |-> "uid",
                readyToStream |-> TRUE, state |-> LiveState(input),
                thumbnail |-> <<>>, playback |-> NoPlayback] IN
  IF subdomain /\ input.uid # ""
    THEN [video EXCEPT
            !.playback = [iframe |-> BuiltUrl("iframe", input.uid),
                          hls |-> BuiltUrl("hls", input.uid),
                          dash |-> BuiltUrl("dash", input.uid),
                          whep |-> LiveWhep(input)],
            !.thumbnail = DefaultThumbnail(input.uid)]
    ELSE [video EXCEPT !.playback = [NoPlayback EXCEPT !.whep = LiveWhep(input)]]

\* live-inputs/list/route.ts lines 14-37
ConvertListedLiveInput(input, subdomain) ==
  LET video == [uid |-> input.uid, isLive |-> TRUE, liveInputId |-> input.uid,
                readyToStream |-> TRUE, state |-> LiveState(input),
                thumbnail |-> <<>>,
                playback |-> [NoPlayback EXCEPT !.whep = LiveWhep(input)]] IN
  IF subdomain /\ input.uid # ""
    THEN [video EXCEPT !.thumbnail = DefaultThumbnail(input.uid)]
    ELSE video

\* GET /api/live-inputs/[id]
live_inputs_id_GET ==
  /\ resPc = "request" /\ resRoute = "liveInput"
  /\ resOut' = ConvertLiveInput(resIn, resSub)
  /\ resPc' = "once"
  /\ UNCHANGED <<clientVars, gwVars, aggVars, netVars, resRoute, resIn, resSub,
                 resTok, resOut2, resTokenRequests>>

\* GET /api/live-inputs/list, for one live input of the list
live_inputs_list_GET ==
  /\ resPc = "request" /\ resRoute = "liveInputs"
  /\ resOut' = ConvertListedLiveInput(resIn, resSub)
  /\ resPc' = "once"
  /\ UNCHANGED <<clientVars, gwVars, aggVars, netVars, resRoute, resIn, resSub,
                 resTok, resOut2, resTokenRequests>>

\* ------------------------------------------------------------------------
\* Initial states and specifications
\* ------------------------------------------------------------------------

NoStatus == [thrown |-> FALSE, ok |-> FALSE, json |-> FALSE, success |-> FALSE,
             hasData |-> FALSE, readyToStream |-> FALSE, state |-> "queued"]
NoPause == [n |-> 0, pause |-> FALSE, outcome |-> "none", released |-> 0]

\* lines 137-161 (useState / useRef initial values) and lines 14-17
InitComponent(m) ==
  /\ mounted = TRUE
  /\ mode = m
  /\ error = "none"
  /\ isStreaming = FALSE
  /\ isConnecting = FALSE
  /\ connectionStatus = "disconnected"
  /\ isPaused = FALSE
  /\ isPausingResuming = FALSE
  /\ liveInputId = 0
  /\ streamRef = 0
  /\ whipClientRef = 0
  /\ streams = <<>>
  /\ clients = <<>>
  /\ liveInputs = 0
  /\ startTasks = <<>>
  /\ stopGrace = 0
  /\ stopDestroy = 0
  /\ stopCalls = 0
  /\ pauseTasks = <<>>
  /\ pauseCalls = 0
  /\ lastPause = NoPause
  /\ lastDestroy = "none"
  /\ pauseSentFor = {}

InitPoller ==
  /\ pollPc = "unstarted"
  /\ attempts = 0
  /\ timeoutId = FALSE
  /\ statusFetches = 0
  /\ captionRequests = 0
  /\ observed = "none"
  /\ lastStatus = NoStatus
  /\ lastCaption = "none"
  /\ pendingAtUnmount = FALSE

\* lines 140-143, 158-160
InitRecorder ==
  /\ isRecording = FALSE
  /\ isUploading = FALSE
  /\ progress = 0
  /\ videoId = 0
  /\ recorderRef = 0
  /\ recorders = <<>>
  /\ chunksRef = <<>>
  /\ chunkCount = 0
  /\ recClicks = 0
  /\ recPending = 0
  /\ uploadTasks = <<>>
  /\ lastUpload = NewUpload("none", <<>>)
  /\ sessions = <<>>
  /\ pollersStarted = <<>>
  /\ completed = <<>>

\* no request is being served
NoAsset == [uid |-> "", thumbnail |-> <<>>, playback |-> <<>>]
NoResponse == [rejected |-> FALSE, status |-> 200, lengthZero |-> FALSE,
               jsonType |-> FALSE, body |-> "blank"]
InitGatewayIdle ==
  /\ gwOp = "none"
  /\ gwConfigured = FALSE
  /\ gwResponse = NoResponse
  /\ gwResult = Failure("none", 0)
  /\ gwPc = "idle"

InitFetchIdle ==
  /\ netInputs = <<>>
  /\ netVideosFetch = "unissued"
  /\ netInputsFetch = "unissued"
  /\ netRecordingsFetch = <<>>
  /\ netIdx = 1
  /\ netPc = "idle"

InitAggregatorIdle ==
  /\ InitFetchIdle
  /\ aggSub = FALSE
  /\ aggTok = <<>>
  /\ aggVideos = <<>>
  /\ aggInputs = <<>>
  /\ aggIdx = 1
  /\ aggAll = <<>>
  /\ aggFetched = <<>>
  /\ aggOut = <<>>
  /\ aggPc = "idle"

InitApiIdle ==
  /\ InitGatewayIdle
  /\ InitAggregatorIdle
  /\ resRoute = "none"
  /\ resIn = NoAsset
  /\ resSub = FALSE
  /\ resTok = FALSE
  /\ resOut = NoAsset
  /\ resOut2 = NoAsset
  /\ resPc = "idle"
  /\ resTokenRequests = 0

\* The Readiness Poller: one call of pollVideoReadinessAndGenerateCaptions by
\* a mounted component, which may be unmounted at any moment
PollerInit == InitComponent("buffered") /\ InitPoller /\ InitRecorder /\ InitApiIdle

PollerNext ==
  \/ pollVideoReadinessAndGenerateCaptions
  \/ checkAndGenerate_Fire
  \/ checkAndGenerate_Status
  \/ checkAndGenerate_Captions
  \/ Unmount

PollerSpec == PollerInit /\ [][PollerNext]_vars

\* The Live Transport: the component in live mode
LiveInit == InitComponent("live") /\ InitPoller /\ InitRecorder /\ InitApiIdle

LiveNext ==
  \/ startStreaming
  \/ \E i \in 1..Len(startTasks) : startStreaming_Media(i)
  \/ \E i \in 1..Len(startTasks) : startStreaming_Created(i)
  \/ \E i \in 1..Len(startTasks) : startStreaming_Ingested(i)
  \/ pauseResumeStreaming
  \/ \E i \in 1..Len(pauseTasks) : pauseResumeStreaming_Response(i)
  \/ stopStreaming
  \/ stopStreaming_GraceOver
  \/ stopStreaming_Destroyed
  \/ Unmount

LiveSpec == LiveInit /\ [][LiveNext]_vars

\* The Buffered Transport: the component in buffered mode (its initial mode).
\* An upload that completes leaves the Readiness Poller started; the steps of
\* a started poller are those of PollerSpec.
RecorderInit == InitComponent("buffered") /\ InitPoller /\ InitRecorder /\ InitApiIdle

RecorderNext ==
  \/ recClicks < MaxRecordings /\ startRecording
  \/ startRecording_Media
  \/ \E r \in 1..Len(recorders) : recorder_ondataavailable(r)
  \/ stopRecording
  \/ \E r \in 1..Len(recorders) : recorder_onstop(r)
  \/ \E i \in 1..Len(uploadTasks) : uploadRecording(i)
  \/ \E i \in 1..Len(uploadTasks) : uploadRecording_Created(i)
  \/ \E i \in 1..Len(uploadTasks) : uploadVideoChunk_progress(i)
  \/ \E i \in 1..Len(uploadTasks) : uploadVideoChunk_Settled(i)
  \/ \E i \in 1..Len(uploadTasks) : uploadRecording_StatusChecked(i)
  \/ Unmount

RecorderSpec == RecorderInit /\ [][RecorderNext]_vars

\* The capture device: both transports of one component and the mode
\* selector, explored for DeviceRecordings recordings and DeviceStarts live
\* sessions
DeviceInit == RecorderInit

DeviceNext ==
  \/ \E m \in {"buffered", "live"} : SetMode(m)
  \/ recClicks < DeviceRecordings /\ startRecording
  \/ startRecording_Media
  \/ \E r \in 1..Len(recorders) : recorder_ondataavailable(r)
  \/ \E r \in 1..Len(recorders) : recorder_TracksEnded(r)
  \/ stopRecording
  \/ \E r \in 1..Len(recorders) : recorder_onstop(r)
  \/ \E i \in 1..Len(uploadTasks) : uploadRecording(i)
  \/ \E i \in 1..Len(uploadTasks) : uploadRecording_Created(i)
  \/ \E i \in 1..Len(uploadTasks) : uploadVideoChunk_progress(i)
  \/ \E i \in 1..Len(uploadTasks) : uploadVideoChunk_Settled(i)
  \/ \E i \in 1..Len(uploadTasks) : uploadRecording_StatusChecked(i)
  \/ Len(startTasks) < DeviceStarts /\ startStreaming
  \/ \E i \in 1..Len(startTasks) : startStreaming_Media(i)
  \/ \E i \in 1..Len(startTasks) : startStreaming_Created(i)
  \/ \E i \in 1..Len(startTasks) : startStreaming_Ingested(i)
  \/ pauseResumeStreaming
  \/ \E i \in 1..Len(pauseTasks) : pauseResumeStreaming_Response(i)
  \/ stopStreaming
  \/ stopStreaming_GraceOver
  \/ stopStreaming_Destroyed
  \/ Unmount

DeviceSpec == DeviceInit /\ [][DeviceNext]_vars

\* The Buffered Transport with a recording started while the upload of the
\* recording before it is pending: OverlapRecordings recordings.  Progress
\* events of a transfer touch neither the chunk buffer nor the payload and
\* are left out; every transfer still settles either way.
OverlapInit == RecorderInit

OverlapNext ==
  \/ recClicks < OverlapRecordings /\ startRecording
  \/ startRecording_Media
  \/ \E r \in 1..Len(recorders) : recorder_ondataavailable(r)
  \/ stopRecording
  \/ \E r \in 1..Len(recorders) : recorder_onstop(r)
  \/ \E i \in 1..Len(uploadTasks) : uploadRecording(i)
  \/ \E i \in 1..Len(uploadTasks) : uploadRecording_Created(i)
  \/ \E i \in 1..Len(uploadTasks) : uploadVideoChunk_Settled(i)
  \/ \E i \in 1..Len(uploadTasks) : uploadRecording_StatusChecked(i)
  \/ Unmount

OverlapSpec == OverlapInit /\ [][OverlapNext]_vars

\* The Playback Resolver: one request, for any asset, with or without a
\* configured subdomain, with or without a signed token
ResolverInit ==
  /\ InitComponent("buffered") /\ InitPoller /\ InitRecorder
  /\ InitGatewayIdle
  /\ InitAggregatorIdle
  /\ resRoute \in {"list", "recording", "single", "plain"}
  /\ resIn \in Assets
  /\ resSub \in BOOLEAN
  /\ resTok \in BOOLEAN
  /\ resOut = NoAsset
  /\ resOut2 = NoAsset
  /\ resPc = "request"
  /\ resTokenRequests = 0

ResolverNext ==
  \/ videos_list_GET
  \/ videos_list_GET_recording
  \/ videos_id_GET
  \/ videos_id_GET_plain
  \/ ResolveAgain

ResolverSpec == ResolverInit /\ [][ResolverNext]_vars

\* The Platform Gateway: one call of one operation, with the credentials
\* configured or not, and any answer of the network
InitResolverIdle ==
  /\ resRoute = "none"
  /\ resIn = NoAsset
  /\ resSub = FALSE
  /\ resTok = FALSE
  /\ resOut = NoAsset
  /\ resOut2 = NoAsset
  /\ resPc = "idle"
  /\ resTokenRequests = 0

GatewayInit ==
  /\ InitComponent("buffered") /\ InitPoller /\ InitRecorder
  /\ InitResolverIdle
  /\ InitAggregatorIdle
  /\ gwOp \in GatewayOps
  /\ gwConfigured \in BOOLEAN
  /\ gwResponse \in Responses
  /\ gwResult = Failure("none", 0)
  /\ gwPc = "call"

GatewayNext ==
  \/ gateway_cloudflareRequest
  \/ gateway_listVideos
  \/ gateway_listLiveInputs
  \/ gateway_generateSignedToken
  \/ gateway_getLiveInputRecordings
  \/ \E op \in ForwardingOps : gateway_forwarding(op)
  \/ \E op \in VoidOps : gateway_void(op)
  \/ \E op \in UrlOps : gateway_url(op)
  \/ gateway_uploadVideoChunk

GatewaySpec == GatewayInit /\ [][GatewayNext]_vars

\* The Library Aggregator: one GET /api/videos/list, for any videos and live
\* inputs of the platform
AggregatorInit ==
  /\ InitComponent("buffered") /\ InitPoller /\ InitRecorder
  /\ InitResolverIdle
  /\ InitGatewayIdle
  /\ InitFetchIdle
  /\ aggSub \in BOOLEAN
  /\ aggTok = <<>>
  /\ aggVideos \in ListsOf(ListedVideos)
  /\ aggInputs \in LiveInputLists
  /\ aggIdx = 1
  /\ aggAll = <<>>
  /\ aggFetched = <<>>
  /\ aggOut = <<>>
  /\ aggPc = "request"

AggregatorNext ==
  \/ list_GET_lists
  \/ list_GET_recordings
  \/ list_GET_respond

AggregatorSpec == AggregatorInit /\ [][AggregatorNext]_vars

\* One request that resolves playback: a request for one asset to any of the
\* routes, or one GET /api/videos/list for the whole listing
PlaybackInit == ResolverInit \/ AggregatorInit

PlaybackNext == ResolverNext \/ AggregatorNext

PlaybackSpec == PlaybackInit /\ [][PlaybackNext]_vars

\* The Library Aggregator when the platform may list a recording more than
\* once in one request
RelistInit ==
  /\ InitComponent("buffered") /\ InitPoller /\ InitRecorder
  /\ InitResolverIdle
  /\ InitGatewayIdle
  /\ InitFetchIdle
  /\ aggSub \in BOOLEAN
  /\ aggTok = <<>>
  /\ aggVideos \in ListsOf({v \in ListedVideos : v.created = 1})
  /\ aggInputs \in LiveInputLists
  /\ aggIdx = 1
  /\ aggAll = <<>>
  /\ aggFetched = <<>>
  /\ aggOut = <<>>
  /\ aggPc = "request"

RelistNext ==
  \/ list_GET_lists
  \/ list_GET_recordings_relisted
  \/ list_GET_respond

RelistSpec == RelistInit /\ [][RelistNext]_vars

\* A live input resolved for display: one request, for any live input, with
\* or without a configured subdomain, a token being obtainable or not
LiveInputInit ==
  /\ InitComponent("buffered") /\ InitPoller /\ InitRecorder
  /\ InitGatewayIdle
  /\ InitAggregatorIdle
  /\ resRoute \in {"liveInput", "liveInputs"}
  /\ resIn \in LiveInputRecords
  /\ resSub \in BOOLEAN
  /\ resTok \in BOOLEAN
  /\ resOut = NoAsset
  /\ resOut2 = NoAsset
  /\ resPc = "request"
  /\ resTokenRequests = 0

LiveInputNext ==
  \/ live_inputs_id_GET
  \/ live_inputs_list_GET

LiveInputSpec == LiveInputInit /\ [][LiveInputNext]_vars

\* The fetches of one GET /api/videos/list, each with its own issue and its
\* own settlement, for any list of live inputs
InitMergeIdle ==
  /\ aggSub = FALSE
  /\ aggTok = <<>>
  /\ aggVideos = <<>>
  /\ aggInputs = <<>>
  /\ aggIdx = 1
  /\ aggAll = <<>>
  /\ aggFetched = <<>>
  /\ aggOut = <<>>
  /\ aggPc = "idle"

FetchInit ==
  /\ InitComponent("buffered") /\ InitPoller /\ InitRecorder
  /\ InitResolverIdle
  /\ InitGatewayIdle
  /\ InitMergeIdle
  /\ netInputs \in LiveInputLists
  /\ netVideosFetch = "unissued"
  /\ netInputsFetch = "unissued"
  /\ netRecordingsFetch = [i \in 1..Len(netInputs) |-> "unissued"]
  /\ netIdx = 1
  /\ netPc = "start"

FetchNext ==
  \/ list_GET_issue
  \/ listVideos_settles
  \/ listLiveInputs_settles
  \/ list_GET_loop
  \/ getLiveInputRecordings_settles
  \/ list_GET_merge

FetchSpec == FetchInit /\ [][FetchNext]_vars

\* ------------------------------------------------------------------------
\* Readiness Poller: properties (checked under PollerSpec)
\* ------------------------------------------------------------------------

\* C1: if no status fetch ever reports the asset ready or in state error, the
\* poller performs exactly maxAttempts status fetches: it never exceeds the
\* budget, it does not come to rest before the budget is used up, and once
\* the last response has been handled no timer is pending and no caption
\* request has been made (so no step of the poller is enabled any more).
C1_ExactlyMaxAttempts ==
  /\ statusFetches <= maxAttempts
  /\ (observed = "none" /\ pollPc = "idle" /\ ~timeoutId) =>
        statusFetches = maxAttempts
  /\ (observed = "none" /\ statusFetches = maxAttempts /\ pollPc # "awaitStatus") =>
        (pollPc = "idle" /\ ~timeoutId /\ captionRequests = 0)

\* the budget has been used up without a ready or error report
C1_Witness ==
  /\ observed = "none" /\ pollPc = "idle" /\ ~timeoutId
  /\ statusFetches = maxAttempts

\* C2: once a status response has reported the readiness flag, exactly one
\* caption request has been issued, no timer is pending and no status fetch
\* is in flight, in every later state; a caption request is issued for no
\* other reason; and a failed caption request leaves the poller at rest
\* with no error surfaced.
C2_ReadyTriggersCaptionsOnce ==
  /\ captionRequests <= 1
  /\ captionRequests = 1 <=> observed = "ready"
  /\ observed = "ready" => (~timeoutId /\ pollPc \in {"awaitCaptions", "idle"})
  /\ lastCaption = "failed" => (pollPc = "idle" /\ ~timeoutId /\ error = "none")

\* ready was seen after at least one earlier poll, and the caption request failed
C2_Witness ==
  /\ observed = "ready" /\ lastCaption = "failed"
  /\ statusFetches > 1 /\ captionRequests = 1

\* C3: once a status response has reported processing state error (readiness
\* flag not set), the poller is at rest (no timer, no request in flight) and
\* no caption request has been issued, in every later state.
C3_ErrorStopsWithoutCaptions ==
  observed = "error" => (pollPc = "idle" /\ ~timeoutId /\ captionRequests = 0)

\* state error was reported by a poll that was not the first and not the last
C3_Witness ==
  /\ observed = "error" /\ statusFetches > 1 /\ statusFetches < maxAttempts

\* C4: every status fetch, failed or not, counts as exactly one attempt; the
\* number of fetches never exceeds the maximum; and right after a failed
\* fetch (rejected, or non-OK status) has been handled, the next poll is
\* scheduled if and only if the budget is not exhausted.
C4_FailedFetchConsumesOneAttempt ==
  /\ pollPc # "unstarted" => attempts = statusFetches
  /\ statusFetches <= maxAttempts
  /\ (pollPc = "idle" /\ attempts > 0 /\ FetchFailed(lastStatus)) =>
        (timeoutId <=> attempts < maxAttempts)

\* a failed fetch was handled with budget left, and the next poll is scheduled
C4_Witness ==
  /\ pollPc = "idle" /\ attempts > 1 /\ attempts < maxAttempts
  /\ FetchFailed(lastStatus) /\ timeoutId

\* C5 (as claimed): if the component is unmounted while a poll is scheduled,
\* the poller issues no status fetch and no caption request afterwards.
C5_TeardownCancelsPoll ==
  [][pendingAtUnmount =>
       (statusFetches' = statusFetches /\ captionRequests' = captionRequests)]_vars

\* ------------------------------------------------------------------------
\* Live Transport: properties (checked under LiveSpec)
\* ------------------------------------------------------------------------

\* The edges the claim allows.  connectionStatus has no value "paused": pause
\* sets it to "disconnected", so the edges through "paused" are never taken.
ClaimedEdges ==
  { <<"disconnected", "connecting">>, <<"connecting", "connected">>,
    <<"connected", "paused">>, <<"paused", "connected">>,
    <<"connected", "disconnected">>, <<"paused", "disconnected">>,
    <<"connecting", "error">>, <<"connected", "error">> }

\* C6 (as claimed): the connection state changes only along the claimed
\* edges; in particular nothing leaves "error".
C6_OnlyClaimedEdges ==
  [][connectionStatus' # connectionStatus =>
       <<connectionStatus, connectionStatus'>> \in ClaimedEdges]_vars

NumInFlight ==
  Cardinality({i \in 1..Len(startTasks) : StartInFlight(startTasks[i])})

\* ingest sessions that were opened and on which destroy() was never called
ActiveSessions ==
  {c \in 1..Len(clients) : clients[c].ingest = "ok" /\ ~clients[c].destroyed}

\* C7 (as claimed): startStreaming is never invoked while the state is
\* connecting or connected or while another invocation is in flight, and at
\* most one live session is active at any time.
C7_SingleLiveSession ==
  /\ [][Len(startTasks') > Len(startTasks) =>
          (connectionStatus \notin {"connecting", "connected"} /\ NumInFlight = 0)]_vars
  /\ [](NumInFlight <= 1)
  /\ [](Cardinality(ActiveSessions) <= 1)

\* C8 (as claimed): once a failed startStreaming has run its catch block, the
\* stream it acquired has its tracks stopped and the client it created has
\* been destroyed and is not referenced.
C8_FailedStartReleasesAll ==
  \A i \in 1..Len(startTasks) :
    startTasks[i].pc = "failed" =>
      /\ startTasks[i].stream # 0 => streams[startTasks[i].stream] = "stopped"
      /\ startTasks[i].client # 0 =>
           /\ clients[startTasks[i].client].destroyed
           /\ whipClientRef # startTasks[i].client

\* C9 (as claimed): when a pause request ends in failure (rejected, or a
\* failure result from the server), then in the state that follows the
\* paused flag is true, the released stream is stopped and an error is set.
C9_PauseFailureReported ==
  [][(lastPause'.n # lastPause.n /\ lastPause'.pause
        /\ lastPause'.outcome \in {"throw", "failResult"}) =>
       /\ isPaused'
       /\ lastPause'.released # 0 => streams'[lastPause'.released] = "stopped"
       /\ error' # "none"]_vars

\* C10: in every state in which a pause request is in flight, the paused flag
\* is true and the tracks of the stream the pause released are stopped.
C10_PausedWhileRequestInFlight ==
  \A i \in 1..Len(pauseTasks) :
    pauseTasks[i].pause =>
      /\ isPaused
      /\ pauseTasks[i].released # 0 => streams[pauseTasks[i].released] = "stopped"

\* a pause request is in flight while a later start has connected again
C10_Witness ==
  \E i \in 1..Len(pauseTasks) :
    /\ pauseTasks[i].pause /\ pauseTasks[i].released # 0
    /\ isStreaming /\ connectionStatus = "connected"

\* C11: a resume (pauseResumeStreaming(false)) only informs the remote
\* platform.  Neither the click nor the arrival of the response acquires a
\* capture device, creates, reopens or destroys an ingest session, or changes
\* the stream handle, the session handle or the connection state; and the
\* paused flag is cleared only by a resume whose remote call reported success.
ResumeClicked ==
  /\ Len(pauseTasks') = Len(pauseTasks) + 1
  /\ ~pauseTasks'[Len(pauseTasks')].pause
ResumeSettled == lastPause'.n # lastPause.n /\ ~lastPause'.pause
C11_ResumeOnlyInformsRemote ==
  [][/\ (ResumeClicked \/ ResumeSettled) =>
          UNCHANGED <<streamRef, whipClientRef, connectionStatus, isStreaming,
                      streams, clients, liveInputs, liveInputId, startTasks>>
     /\ ResumeClicked => UNCHANGED isPaused
     /\ (isPaused /\ ~isPaused') => (ResumeSettled /\ lastPause'.outcome = "ok")]_vars
C11_Witness ==
  /\ lastPause.n > 0 /\ ~lastPause.pause
  /\ lastPause.outcome = "failResult"
  /\ isPaused

\* C12: stopStreaming releases the capture device first and tears the ingest
\* session down afterwards: the step that stops the tracks leaves every
\* session alone, and stopStreaming calls destroy() only once its grace
\* period is over or when there was no device to release.  A rejection of
\* destroy() is swallowed: whenever a stopStreaming invocation completes,
\* the stream handle and the session handle are null, the connection state is
\* "disconnected" and the error is what it was.
StopReleasesDevice == stopCalls' > stopCalls /\ streamRef # 0
StopCallsDestroy == stopDestroy' > stopDestroy
StopCompletes ==
  \/ stopDestroy' < stopDestroy
  \/ stopGrace' < stopGrace /\ stopDestroy' = stopDestroy
  \/ stopCalls' > stopCalls /\ stopGrace' = stopGrace /\ stopDestroy' = stopDestroy
C12_StopReleasesThenTearsDown ==
  [][/\ StopReleasesDevice =>
          /\ streams'[streamRef] = "stopped"
          /\ UNCHANGED <<clients, whipClientRef>>
     /\ StopCallsDestroy => (stopGrace' < stopGrace \/ streamRef = 0)
     /\ StopCompletes =>
          /\ streamRef' = 0 /\ whipClientRef' = 0
          /\ connectionStatus' = "disconnected"
          /\ error' = error]_vars
C12_Witness ==
  /\ lastDestroy = "threw"
  /\ stopDestroy = 0 /\ stopGrace = 0
  /\ streamRef = 0 /\ whipClientRef = 0
  /\ connectionStatus = "disconnected" /\ error = "none"
  /\ \E s \in 1..Len(streams) : streams[s] = "stopped"
  /\ \E c \in 1..Len(clients) : clients[c].destroyed

\* ------------------------------------------------------------------------
\* Buffered Transport and capture device: properties
\* ------------------------------------------------------------------------

\* C13 (DeviceSpec): at most one of the two transports holds the capture
\* device, and every device stream that was acquired is either the one
\* streamRef references or has been stopped: none is overwritten and left
\* running, whatever the interleaving of startRecording, startStreaming and
\* mode switches.
RecordingHoldsDevice ==
  \E r \in 1..Len(recorders) : streams[recorders[r].stream] = "running"
LiveHoldsDevice ==
  \E i \in 1..Len(startTasks) :
     startTasks[i].stream # 0 /\ streams[startTasks[i].stream] = "running"
C13_NoStreamLeftRunning ==
  /\ ~(RecordingHoldsDevice /\ LiveHoldsDevice)
  /\ \A s \in 1..Len(streams) : streams[s] = "running" => s = streamRef

\* the uploadRecording invocations in flight and the last one that finished
Uploads == {uploadTasks[i] : i \in 1..Len(uploadTasks)} \cup {lastUpload}

\* C14 (RecorderSpec): an upload whose recorded payload has zero bytes fails
\* with the validation error without any network call: no upload session has
\* been requested for it and no payload has been sent.
C14_EmptyPayloadNoNetworkCall ==
  /\ lastUpload.failedAt = "empty" => lastUpload.uid = 0
  /\ \A t \in Uploads : t.pc \in {"transfer", "status", "done"} => BlobSize(t.blob) > 0

\* C15 (RecorderSpec): the progress values one upload reports, from its start
\* to its success or failure, never decrease and lie in [0, 100]; the last
\* value of a successful upload is exactly 100.
NonDecreasing(q) == \A j \in 1..(Len(q) - 1) : q[j] <= q[j + 1]
C15_ProgressMonotoneTo100 ==
  \A t \in Uploads :
     /\ NonDecreasing(t.log)
     /\ \A j \in 1..Len(t.log) : t.log[j] >= 0 /\ t.log[j] <= 100
     /\ t.pc = "done" => (Len(t.log) > 0 /\ t.log[Len(t.log)] = 100)
C15_Witness ==
  /\ lastUpload.pc = "done"
  /\ lastUpload.log = <<0, 50, 100>>

\* C16 (RecorderSpec): a successful upload reports the value 100 exactly
\* once, also when a progress event of the transfer had already reported 100;
\* a failed upload has no 100 from the completion step (at most the one a
\* progress event reported).
Count100(q) == Cardinality({j \in 1..Len(q) : q[j] = 100})
C16_HundredExactlyOnce ==
  /\ lastUpload.pc = "done" => Count100(lastUpload.log) = 1
  /\ lastUpload.pc = "failed" => Count100(lastUpload.log) <= 1

\* C17 (RecorderSpec): every upload session that a create call returned is
\* consumed by exactly one payload transfer.
C17_SessionConsumedOnce ==
  \A u \in 1..Len(sessions) : sessions[u] = 1

\* ------------------------------------------------------------------------
\* Playback Resolver: properties (checked under ResolverSpec)
\* ------------------------------------------------------------------------

\* C18: with a subdomain configured, a playback field (iframe, hls, dash,
\* whep) that is non-empty on input has the same value in the output, with or
\* without a token.
C18_NonEmptyPlaybackPreserved ==
  (resPc # "request" /\ resSub) =>
    \A f \in PlaybackFields :
       resIn.playback[f] # <<>> => resOut.playback[f] = resIn.playback[f]

\* C19: the resolver is idempotent: resolving its own output again, with the
\* same subdomain and token outcome, yields the same playback bundle and the
\* same thumbnail.
C19_ResolverIdempotent ==
  resPc = "twice" =>
    /\ resOut2.playback = resOut.playback
    /\ resOut2.thumbnail = resOut.thumbnail

\* C20: with a subdomain configured the thumbnail follows three cases:
\* (1) a token was obtained and the thumbnail contains the raw id: the id is
\*     replaced by the token in place;
\* (2) there is no thumbnail: the default built from the subdomain and the
\*     playback identifier;
\* (3) otherwise, also with a token and a thumbnail without the raw id: the
\*     thumbnail is left unchanged.
ReplacedInPlace(before, after) ==
  /\ Len(after) = Len(before)
  /\ \A j \in 1..Len(before) :
       after[j] = before[j] \/ (before[j] = "uid" /\ after[j] = "tok")
  /\ after # before
C20_ThumbnailThreeCases ==
  (resPc # "request" /\ resSub) =>
    LET before == resIn.thumbnail
        after == resOut.thumbnail IN
    IF resTok /\ Includes(before, "uid")
      THEN ReplacedInPlace(before, after)
      ELSE IF before = <<>>
             THEN after = <<"sub", IF resTok THEN "tok" ELSE "uid", "thumb", "q">>
             ELSE after = before

\* ------------------------------------------------------------------------
\* Playback Resolver: token failure, missing subdomain, ready assets
\* ------------------------------------------------------------------------

\* the request has been answered with a resolved asset
Resolved == resPc \in {"once", "twice"}

\* the positions of the output that hold the asset of a uid
OutputOf(x) == {k \in 1..Len(aggOut) : aggOut[k].uid = x}

\* the assets of the listing in the order in which list/route.ts resolves
\* them: token i belongs to asset i
ListedAssets == aggVideos \o UniqueRecordings(aggAll, aggVideos)

\* the URLs of the answer `out` for the platform's asset `in` are the
\* supplied ones or the ones built from identifier id; the embed URL, both
\* manifests and an absent thumbnail are built from id, and so is the
\* peer-connection URL of a listed video
BuiltFromId(in, out, id) ==
  /\ \A f \in PlaybackFields :
       out.playback[f] \in {in.playback[f], <<"sub", id, f>>}
  /\ \A f \in {"iframe", "hls", "dash"} :
       in.playback[f] = <<>> => out.playback[f] = <<"sub", id, f>>
  /\ out.liveInputId = 0 => out.playback.whep = <<"sub", id, "whep">>
  /\ in.thumbnail = <<>> => out.thumbnail = <<"sub", id, "thumb", "q">>

\* C21 (PlaybackSpec): when the token request for an asset fails, the
\* request is still answered, every URL of that asset is either the one the
\* platform supplied or the one built from the raw identifier, and the embed
\* URL, both manifests and an absent thumbnail are built from the raw
\* identifier.  In a listing in which a token request failed the listing is
\* answered, every listed asset is once in the answer, each asset whose
\* token request failed has its URLs built from its raw identifier, and
\* each other asset has its URLs built from its own token.
C21_TokenFailureFallsBackToRawId ==
  /\ (resPc # "request" /\ resTokenRequests > 0 /\ ~resTok) =>
       /\ Resolved
       /\ \A f \in PlaybackFields :
            resOut.playback[f] \in {resIn.playback[f], <<"sub", "uid", f>>}
       /\ \A f \in {"iframe", "hls", "dash"} :
            resIn.playback[f] = <<>> => resOut.playback[f] = <<"sub", "uid", f>>
       /\ resOut.thumbnail =
            IF resIn.thumbnail = <<>> THEN <<"sub", "uid", "thumb", "q">>
                                      ELSE resIn.thumbnail
  /\ (aggSub /\ \E i \in 1..Len(aggTok) : ~aggTok[i]) =>
       /\ aggPc = "done"
       /\ Len(aggOut) = Len(ListedAssets)
       /\ \A i \in 1..Len(ListedAssets) :
            /\ Cardinality(OutputOf(ListedAssets[i].uid)) = 1
            /\ \A k \in OutputOf(ListedAssets[i].uid) :
                 BuiltFromId(ListedAssets[i], aggOut[k],
                             IF aggTok[i] THEN "tok" ELSE "uid")

C21_Witness ==
  /\ aggPc = "done" /\ aggSub /\ aggTok = <<FALSE, TRUE>>
  /\ Len(aggVideos) = 1 /\ Len(aggOut) = 2
  /\ \A k \in OutputOf(ListedAssets[1].uid) :
       /\ aggOut[k].playback.hls = <<"sub", "uid", "hls">>
       /\ aggOut[k].playback.whep = <<"sub", "uid", "whep">>
       /\ aggOut[k].thumbnail = <<"sub", "uid", "thumb", "q">>
  /\ \A k \in OutputOf(ListedAssets[2].uid) :
       /\ aggOut[k].liveInputId # 0
       /\ aggOut[k].playback.hls = <<"sub", "tok", "hls">>
       /\ aggOut[k].thumbnail = <<"sub", "tok", "thumb", "q">>

\* C22: with no subdomain configured, the answer carries the playback bundle
\* and the thumbnail exactly as the platform supplied them, and no token has
\* been requested.
C22_NoSubdomainLeavesAssetUntouched ==
  (resPc # "request" /\ ~resSub) =>
    /\ Resolved
    /\ resOut.playback = resIn.playback
    /\ resOut.thumbnail = resIn.thumbnail
    /\ resTokenRequests = 0
    /\ resPc = "twice" => resOut2 = resIn

C22_Witness ==
  /\ resPc = "once" /\ ~resSub /\ resRoute = "recording"
  /\ resIn.thumbnail = <<"x">> /\ resIn.playback.iframe = <<>>
  /\ resOut = resIn /\ resTokenRequests = 0

\* C23: with a subdomain configured, the answer has a non-empty embed URL,
\* HLS manifest, DASH manifest and thumbnail, and each of them that the
\* platform left empty is https://{subdomain}/{identifier}/{suffix}, the
\* identifier being the raw identifier or the signed token.
C23_ReadyAssetFullyResolved ==
  (Resolved /\ resSub) =>
    /\ \A f \in {"iframe", "hls", "dash"} :
         /\ resOut.playback[f] # <<>>
         /\ resIn.playback[f] = <<>> =>
              resOut.playback[f] \in {<<"sub", "uid", f>>, <<"sub", "tok", f>>}
    /\ resOut.thumbnail # <<>>
    /\ resIn.thumbnail = <<>> =>
         resOut.thumbnail \in {<<"sub", "uid", "thumb", "q">>,
                               <<"sub", "tok", "thumb", "q">>}

\* ------------------------------------------------------------------------
\* Platform Gateway: properties (checked under GatewaySpec)
\* ------------------------------------------------------------------------

\* the network call of the operation failed: fetch was rejected, or the
\* response is not a 2xx
RemoteFailed == gwResponse.rejected \/ gwResponse.status \notin 200..299

\* the response is successful and has no body: 204, content length zero, a
\* content type that is not JSON, or blank text
SuccessWithoutBody ==
  /\ ~gwResponse.rejected /\ gwResponse.status \in 200..299
  /\ \/ gwResponse.status = 204
     \/ gwResponse.lengthZero
     \/ ~gwResponse.jsonType
     \/ gwResponse.body = "blank"

\* C27: an operation called without the account id or the API token fails
\* with the configuration error and has made no network request.
C27_UnconfiguredFailsWithoutNetwork ==
  (gwPc = "returned" /\ ~gwConfigured) =>
    /\ gwResult.kind = "error" /\ gwResult.error = "config"
    /\ gwResult.fetches = 0

\* C28: an operation whose network call failed gives its caller an error;
\* it never turns the failure into a value.
C28_RemoteFailureForwarded ==
  (gwPc = "returned" /\ gwConfigured /\ RemoteFailed) =>
    gwResult.kind = "error" /\ gwResult.error \in {"network", "remote", "upload"}

\* C29: on a successful response without a body (status 204, content length
\* 0, a content type that is not JSON, or blank text) every operation
\* returns a valid empty result: the empty object, nothing, or the empty
\* list; it raises no error, a parse error in particular; and every list
\* operation, the recordings of a live input included, returns the empty
\* list.
C29_EmptyBodyIsValidEmptyResult ==
  (gwPc = "returned" /\ gwConfigured /\ SuccessWithoutBody) =>
    /\ gwResult.error # "parse"
    /\ gwResult.kind = "value"
    /\ gwResult.value \in {"emptyObject", "undefined", "emptyArray"}
    /\ gwOp \in {"listVideos", "listLiveInputs", "getLiveInputRecordings"} =>
         gwResult.value = "emptyArray"

\* ------------------------------------------------------------------------
\* Library Aggregator: properties (checked under AggregatorSpec)
\* ------------------------------------------------------------------------

\* the live inputs visited so far whose recordings were fetched
FetchedInputs == {i \in 1..Len(aggFetched) : aggFetched[i].outcome = "ok"}

\* the recordings the platform supplied for a live input
SuppliedBy(i) == {aggFetched[i].list[n] : n \in 1..Len(aggFetched[i].list)}

\* the platform reports the recording playable
Playable(r) == r.state = "ready" \/ r.readyToStream = "true"

\* C24: a uid that is both a finished upload and a recording of a live
\* input is once in the output, and that entry is the upload's.
C24_SharedIdOnceAsUpload ==
  aggPc = "done" =>
    \A x \in UidsOf(aggVideos) :
      (\E i \in FetchedInputs : \E r \in SuppliedBy(i) : r.uid = x) =>
        /\ Cardinality(OutputOf(x)) = 1
        /\ \A k \in OutputOf(x) :
             aggOut[k].isLiveRecording = "absent" /\ aggOut[k].liveInputId = 0

C24_Witness ==
  /\ aggPc = "done" /\ Len(aggOut) = 2
  /\ \E i \in FetchedInputs : \E r \in SuppliedBy(i) :
       /\ Playable(r) /\ r.uid \in UidsOf(aggVideos)
       /\ Cardinality(OutputOf(r.uid)) = 1

\* C25: the output is in descending order of creation time, and an entry
\* without a creation time comes after every entry that has one.
C25_NewestFirstUndatedLast ==
  aggPc = "done" =>
    \A i, j \in 1..Len(aggOut) :
      i < j =>
        /\ aggOut[i].created = 0 => aggOut[j].created = 0
        /\ aggOut[j].created # 0 => aggOut[i].created >= aggOut[j].created

C25_Witness ==
  /\ aggPc = "done" /\ Len(aggOut) = 3
  /\ aggOut[1].created = 2 /\ aggOut[2].created = 1 /\ aggOut[3].created = 0
  /\ Len(aggVideos) = 2 /\ aggVideos[1].created = 0 /\ aggVideos[2].created = 1

\* C26: a failed fetch of the recordings of one live input does not fail the
\* listing; that input has no recording in the output, every upload is in
\* the output, and so is every playable recording of the other inputs that
\* is not an upload.
C26_OneInputFailureIsolated ==
  /\ aggPc = "failed" =>
       \A i \in 1..Len(aggFetched) : aggFetched[i].outcome # "failed"
  /\ aggPc = "done" =>
       /\ \A i \in 1..Len(aggFetched) :
            aggFetched[i].outcome = "failed" =>
              \A k \in 1..Len(aggOut) : aggOut[k].liveInputId # i
       /\ \A x \in UidsOf(aggVideos) : OutputOf(x) # {}
       /\ \A i \in FetchedInputs : \A r \in SuppliedBy(i) :
            (Playable(r) /\ r.uid \notin UidsOf(aggVideos)) =>
              \E k \in OutputOf(r.uid) : aggOut[k].liveInputId = i

C26_Witness ==
  /\ aggPc = "done" /\ Len(aggFetched) = 2 /\ Len(aggVideos) = 1
  /\ aggFetched[1].outcome = "failed" /\ aggFetched[2].outcome = "ok"
  /\ Len(aggOut) = 2
  /\ \E k \in 1..Len(aggOut) : aggOut[k].liveInputId = 2

\* C30: a recording supplied for a live input is kept if and only if its
\* state is ready or its readiness flag is set; every kept recording carries
\* the id of its live input and is flagged a recording and not live, in the
\* loop and in the output.
C30_KeepsPlayableRecordingsTagged ==
  /\ \A i \in FetchedInputs : \A r \in SuppliedBy(i) :
       (\E k \in 1..Len(aggAll) : aggAll[k].uid = r.uid /\ aggAll[k].liveInputId = i)
         <=> Playable(r)
  /\ \A k \in 1..Len(aggAll) :
       /\ aggAll[k].isLiveRecording = "true" /\ aggAll[k].isLive = "false"
       /\ aggAll[k].liveInputId \in FetchedInputs
       /\ \E r \in SuppliedBy(aggAll[k].liveInputId) : r.uid = aggAll[k].uid
  /\ aggPc = "done" =>
       /\ \A k \in 1..Len(aggAll) :
            aggAll[k].uid \notin UidsOf(aggVideos) =>
              \E n \in OutputOf(aggAll[k].uid) :
                aggOut[n].liveInputId = aggAll[k].liveInputId
       /\ \A n \in 1..Len(aggOut) :
            aggOut[n].liveInputId # 0 =>
              /\ aggOut[n].isLiveRecording = "true" /\ aggOut[n].isLive = "false"
              /\ \E k \in 1..Len(aggAll) :
                   aggAll[k].uid = aggOut[n].uid
                     /\ aggAll[k].liveInputId = aggOut[n].liveInputId

C30_Witness ==
  /\ aggPc = "done" /\ Len(aggFetched) = 1 /\ Len(aggFetched[1].list) = 2
  /\ aggFetched[1].list[1].state = "inprogress"
  /\ aggFetched[1].list[1].readyToStream = "true"
  /\ ~Playable(aggFetched[1].list[2])
  /\ Len(aggOut) = 1 /\ aggOut[1].uid = aggFetched[1].list[1].uid
  /\ aggOut[1].liveInputId = 1 /\ aggOut[1].isLiveRecording = "true"

\* ------------------------------------------------------------------------
\* Library Aggregator: order of the fetches (checked under FetchSpec)
\* ------------------------------------------------------------------------

\* the live inputs whose recordings the request fetches
InputsWithUid == {i \in 1..Len(netInputs) : netInputs[i]}

\* C31: the fetch of the uploads and the fetch of the live inputs are issued
\* together, before either settles; the merge (the loop and what follows)
\* starts only after both are done; and the recordings fetches of the live
\* inputs are issued together, none waiting for another to settle.
C31_FetchesIssuedConcurrently ==
  /\ netVideosFetch = "unissued" <=> netInputsFetch = "unissued"
  /\ netPc \in {"loop", "recordings", "merge"} =>
       netVideosFetch = "done" /\ netInputsFetch = "done"
  /\ \A i, j \in InputsWithUid :
       netRecordingsFetch[i] = "unissued" <=> netRecordingsFetch[j] = "unissued"

\* ------------------------------------------------------------------------
\* Live inputs resolved for display (checked under LiveInputSpec)
\* ------------------------------------------------------------------------

\* C32: the peer-connection playback URL of a resolved live input is the
\* one of the live input's record, absent when the record has none; the
\* embed URL, the manifests and the thumbnail are absent or built from the
\* raw id, and no token has been requested.
C32_LiveInputWhepFromRecordOnly ==
  resPc = "once" =>
    /\ resOut.playback.whep = resIn.whep
    /\ \A f \in {"iframe", "hls", "dash"} :
         resOut.playback[f] \in {<<>>, <<"sub", "uid", f>>}
    /\ resOut.thumbnail \in {<<>>, <<"sub", "uid", "thumb", "q">>}
    /\ (resRoute = "liveInput" /\ resSub /\ resIn.uid # "") =>
         /\ \A f \in {"iframe", "hls", "dash"} : resOut.playback[f] # <<>>
         /\ resOut.thumbnail # <<>>
    /\ resTokenRequests = 0

C32_Witness ==
  /\ resPc = "once" /\ resRoute = "liveInput" /\ resSub /\ resTok
  /\ resIn.uid = "uid" /\ resIn.whep = <<>>
  /\ resOut.playback.whep = <<>>
  /\ resOut.playback.hls = <<"sub", "uid", "hls">>

\* ------------------------------------------------------------------------
\* Live Transport: ownership of the ingest session, the paused flag, teardown
\* ------------------------------------------------------------------------

\* the ingest session clients created so far on which destroy() was never
\* called
UndestroyedClients == {c \in 1..Len(clients) : ~clients[c].destroyed}

\* C33: whenever whipClientRef stops referencing a client (it is set to
\* null or to another client), destroy() has been called on that client; and
\* at no time is there more than one client on which destroy() was never
\* called.
C33_ClientDestroyedBeforeDropped ==
  /\ [][(whipClientRef # 0 /\ whipClientRef' # whipClientRef) =>
          clients'[whipClientRef].destroyed]_vars
  /\ [](Cardinality(UndestroyedClients) <= 1)

\* C34: whenever the transport is connected and its capture device is live,
\* the paused flag is false; and every resume request in flight is for a
\* live input for which a pause request was sent before.
C34_PausedFlagMatchesSession ==
  /\ (connectionStatus = "connected" /\ streamRef # 0
        /\ streams[streamRef] = "running") => ~isPaused
  /\ \A i \in 1..Len(pauseTasks) :
       ~pauseTasks[i].pause => pauseTasks[i].id \in pauseSentFor

\* ------------------------------------------------------------------------
\* Buffered Transport: the payload of an upload (checked under OverlapSpec)
\* ------------------------------------------------------------------------

\* the payload of upload t has been assembled
PayloadBuilt(t) ==
  t.pc \in {"transfer", "status", "done"} \/ (t.pc = "failed" /\ t.failedAt \in {"empty", "transfer"})

\* the payload of upload t is the chunks its own recorder captured, all of
\* them and no others
OwnChunksOnly(t) ==
  /\ \A k \in 1..Len(t.blob) : t.blob[k] = t.recorder
  /\ Len(t.blob) = recorders[t.recorder].chunks

\* C35: the payload an upload assembles consists of exactly the chunks
\* captured by the recording that triggered it, whatever recording was
\* started in between.
C35_PayloadIsOwnRecording ==
  /\ \A i \in 1..Len(uploadTasks) :
       PayloadBuilt(uploadTasks[i]) => OwnChunksOnly(uploadTasks[i])
  /\ PayloadBuilt(lastUpload) => OwnChunksOnly(lastUpload)

\* ------------------------------------------------------------------------
\* Buffered Transport: what the end of an upload attempt reports
\* ------------------------------------------------------------------------

\* upload attempt i ends in this step
AttemptEnds(i) ==
  /\ i \in 1..Len(uploadTasks)
  /\ Len(uploadTasks') = Len(uploadTasks) - 1
  /\ \A k \in 1..Len(uploadTasks') :
       uploadTasks'[k] = uploadTasks[IF k < i THEN k ELSE k + 1]

\* the transfer of upload attempt i has succeeded
TransferSucceeded(i) == uploadTasks[i].pc = "status"

\* C36: an upload attempt whose transfer succeeded ends with one call of the
\* completion callback and one start of the Readiness Poller, both for the
\* new asset id; an attempt that failed ends with neither; no other step
\* does either; and the uploading flag is false when an attempt has ended.
C36_CompletionReportedOncePerSuccess ==
  [][/\ \A i \in 1..Len(uploadTasks) :
          AttemptEnds(i) =>
            /\ ~isUploading'
            /\ IF TransferSucceeded(i)
                 THEN /\ completed' = Append(completed, uploadTasks[i].uid)
                      /\ pollersStarted' = Append(pollersStarted, uploadTasks[i].uid)
                      /\ pollPc' # "unstarted"
                      /\ uploadTasks[i].uid # 0
                 ELSE UNCHANGED <<completed, pollersStarted>>
     /\ (\A i \in 1..Len(uploadTasks) : ~AttemptEnds(i)) =>
          UNCHANGED <<completed, pollersStarted>>]_vars

\* an attempt has ended after a successful transfer: one callback, one poller
C36_Witness ==
  /\ lastUpload.pc = "done"
  /\ completed = <<lastUpload.uid>>
  /\ pollersStarted = <<lastUpload.uid>>
  /\ pollPc = "idle" /\ timeoutId
  /\ ~isUploading
  /\ uploadTasks = <<>>

\* C37: when the status check after a successful transfer reports the
\* processing state error, the attempt ends with the error shown to the user
\* and reports no completion: no completion callback and no poller.
C37_ProcessingErrorSurfaced ==
  [][\A i \in 1..Len(uploadTasks) :
       (AttemptEnds(i) /\ TransferSucceeded(i) /\ lastUpload'.statusCheck = "error") =>
         /\ error' = "upload"
         /\ UNCHANGED <<completed, pollersStarted>>]_vars

\* ------------------------------------------------------------------------
\* Teardown of the component
\* ------------------------------------------------------------------------

\* the device streams whose tracks are still running
RunningStreams == {k \in 1..Len(streams) : streams[k] = "running"}

\* C38: once the component is torn down, no device stream it acquired has a
\* running track and no ingest client it created is undestroyed, whatever it
\* was doing when it was torn down.
C38_TornDownReleasesEverything ==
  ~mounted => RunningStreams = {} /\ UndestroyedClients = {}

\* ------------------------------------------------------------------------
\* Library Aggregator: identity of the listed assets (checked under RelistSpec)
\* ------------------------------------------------------------------------

\* the uids of the playable recordings the platform supplied in this request
PlayableRecordingUids ==
  {r.uid : r \in {x \in UNION {SuppliedBy(i) : i \in FetchedInputs} : Playable(x)}}

\* the uids listed are exactly those of the finished uploads and of the
\* playable recordings, however often each is listed
ListedIdsExact ==
  UidsOf(aggOut) = UidsOf(aggVideos) \cup PlayableRecordingUids

\* C39: the output lists no uid twice, and the uids it lists are exactly
\* those of the finished uploads and of the playable recordings; in
\* particular a recording supplied under two live inputs, or twice under
\* one, is listed once.
C39_EachIdListedOnce ==
  aggPc = "done" =>
    /\ \A i, j \in 1..Len(aggOut) : i # j => aggOut[i].uid # aggOut[j].uid
    /\ ListedIdsExact

====
